---------------------------- MODULE Spec2Model ----------------------------
(***************************************************************************)
(* A model of PE-Visualizer-Online: the format detector of handleFile, the *)
(* structural parsers (parsePE, parseELF, parseMachO) and the search       *)
(* engine (searchPE).                                                      *)
(*                                                                         *)
(* A byte buffer (ArrayBuffer / DataView) is the record                    *)
(*     [len |-> byteLength, data |-> <<b0, b1, ...>>]                      *)
(* with Len(data) <= len; the bytes from Len(data) up to len are zero.     *)
(* A DataView read outside [0, len) throws a RangeError: every parser      *)
(* operator returns either [kind |-> "returned", file |-> ParsedFile] or   *)
(* [kind |-> "threw", error |-> ...].                                      *)
(* A string is the sequence of its UTF-16 code units.                      *)
(***************************************************************************)
EXTENDS Integers, Sequences, FiniteSets, TLC

VARIABLES
    buf,        \* the bytes of the File handed to handleFile / of file.data
    parsed,     \* outcome of the detect-and-parse step of handleFile
    errorMsg,   \* App's errorMsg state (<<>> is null)
    query,      \* searchPE's query
    mode,       \* searchPE's mode
    useRegex,   \* searchPE's useRegex
    searchOut,  \* outcome of searchPE
    pngWalk,    \* parsePNG's position: its loop's offset and regions
    isSearchOpen,   \* the session's isSearchOpen: the search dialog is shown
    isSearching,    \* SearchDialog's isSearching: a search timer is pending
    clipboard,      \* the text last written to the clipboard
    jpegWalk,       \* parseJPEG's position: its loop's offset and regions
    heicWalk,       \* parseHEIC's position: the parseBoxes calls in progress
    sessions,       \* appState.sessions: the open FileSessions, in tab order
    activeSessionId,    \* appState.activeSessionId (null is NoSession)
    reading,        \* handleFile calls awaiting file.arrayBuffer(), by file
    timers,         \* callbacks of handleSearch's setTimeout not yet run
    nextId,         \* the id the next session is given
    loadsLeft       \* calls of handleFile still to be made

vars == <<buf, parsed, errorMsg, query, mode, useRegex, searchOut, pngWalk,
          isSearchOpen, isSearching, clipboard, jpegWalk, heicWalk,
          sessions, activeSessionId, reading, timers, nextId, loadsLeft>>

\* The positions of the other two image parsers.
imageWalks == <<jpegWalk, heicWalk>>

\* The tabs of the window, the file reads and the search timers in flight.
tabState == <<sessions, activeSessionId, reading, timers, nextId, loadsLeft>>

\* The state of the window around the loaded file.
appState == <<isSearchOpen, isSearching, clipboard>>

----------------------------------------------------------------------------
(* Arithmetic helpers *)

Min(a, b) == IF a <= b THEN a ELSE b

Max(a, b) == IF a >= b THEN a ELSE b

RECURSIVE Pow256(_)
Pow256(n) == IF n = 0 THEN 1 ELSE 256 * Pow256(n - 1)

----------------------------------------------------------------------------
(* DataView *)

\* view.byteLength
byteLength(b) == b.len

\* The byte at index i of the underlying ArrayBuffer (i within bounds).
ByteAt(b, i) == IF i < Len(b.data) THEN b.data[i + 1] ELSE 0

\* A DataView getter of n bytes at off throws a RangeError unless this holds.
CanRead(b, off, n) == off >= 0 /\ off + n <= b.len

\* view.getUint8(off)
getUint8(b, off) == ByteAt(b, off)

\* The n bytes at off, most significant first, under the given endianness.
BytesMSB(b, off, n, isLE) ==
    [k \in 1..n |-> IF isLE THEN ByteAt(b, off + n - k) ELSE ByteAt(b, off + k - 1)]

RECURSIVE ValueMSB(_, _)
ValueMSB(bytes, k) ==
    IF k = 0 THEN 0 ELSE ValueMSB(bytes, k - 1) * 256 + bytes[k]

\* view.getUint16(off, isLE)
getUint16(b, off, isLE) == ValueMSB(BytesMSB(b, off, 2, isLE), 2)

\* view.getUint32(off, isLE)
getUint32(b, off, isLE) == ValueMSB(BytesMSB(b, off, 4, isLE), 4)

\* view.getBigUint64(off, isLE)
getBigUint64(b, off, isLE) == ValueMSB(BytesMSB(b, off, 8, isLE), 8)

\* readString(view, offset, length) of peParser.ts and machOParser: the
\* characters up to the first NUL, at most length of them.  It reads the
\* bytes offset .. offset+k where k is the index of the first NUL.
RECURSIVE readStringFrom(_, _, _, _)
readStringFrom(b, offset, length, i) ==
    IF i >= length THEN <<>>
    ELSE IF getUint8(b, offset + i) = 0 THEN <<>>
    ELSE <<getUint8(b, offset + i)>> \o readStringFrom(b, offset, length, i + 1)

readString(b, offset, length) == readStringFrom(b, offset, length, 0)

----------------------------------------------------------------------------
(* Regions and parse outcomes *)

\* A PERegion: name is <<text, label>> where label is the part of the name
\* read from the file (<<>> when the name is fixed).  color, description,
\* value and details are display-only and left out.
Region(name, label, offset, size, type, children) ==
    [name |-> <<name, label>>, offset |-> offset, size |-> size,
     type |-> type, children |-> children]

Field(name, offset, size) == Region(name, <<>>, offset, size, "Field", <<>>)

SectionMetadata(name, virtualAddress, virtualSize, pointerToRawData, sizeOfRawData) ==
    [name |-> name, virtualAddress |-> virtualAddress, virtualSize |-> virtualSize,
     pointerToRawData |-> pointerToRawData, sizeOfRawData |-> sizeOfRawData]

ParsedFile(b, regions, sectionsMetadata, isValid, error, format) ==
    [size |-> b.len, data |-> b, regions |-> regions,
     sectionsMetadata |-> sectionsMetadata, isValid |-> isValid,
     error |-> error, format |-> format]

Returned(file) == [kind |-> "returned", file |-> file]

\* A DataView read out of bounds.
Threw == [kind |-> "threw", error |-> "RangeError"]

\* regions.sort((a, b) => a.offset - b.offset): stable, ascending by offset.
RECURSIVE InsertByOffset(_, _)
InsertByOffset(sorted, r) ==
    IF sorted = <<>> THEN <<r>>
    ELSE IF sorted[Len(sorted)].offset <= r.offset THEN Append(sorted, r)
    ELSE Append(InsertByOffset(SubSeq(sorted, 1, Len(sorted) - 1), r),
                sorted[Len(sorted)])

RECURSIVE SortByOffsetUpTo(_, _)
SortByOffsetUpTo(rs, k) ==
    IF k = 0 THEN <<>> ELSE InsertByOffset(SortByOffsetUpTo(rs, k - 1), rs[k])

SortByOffset(rs) == SortByOffsetUpTo(rs, Len(rs))

----------------------------------------------------------------------------
(* parsePE (services/peParser.ts) *)

PE_MIN_SIZE == 64
DOS_MAGIC == 23117          \* 0x5A4D 'MZ'
PE_SIGNATURE == 17744       \* 0x00004550 'PE\0\0'
PE32PLUS_MAGIC == 523       \* 0x20b
FILE_HEADER_SIZE == 20
SECTION_HEADER_SIZE == 40
MAX_DATA_DIRS == 16

\* The bytes the Optional Header decoding reads, Magic .. NumberOfRvaAndSizes:
\* 96 for PE32 (with BaseOfData, 4-byte ImageBase/stack/heap), 112 for PE32+.
OptFieldsSize(is64Bit) == IF is64Bit THEN 112 ELSE 96

\* The 'fields' list of the Optional Header, in push order.
OptFields(off0, is64Bit) ==
    LET w == IF is64Bit THEN 8 ELSE 4
        std == << Field("Magic", off0, 2),
                  Field("MajorLinkerVersion", off0 + 2, 1),
                  Field("MinorLinkerVersion", off0 + 3, 1),
                  Field("SizeOfCode", off0 + 4, 4),
                  Field("SizeOfInitializedData", off0 + 8, 4),
                  Field("SizeOfUninitializedData", off0 + 12, 4),
                  Field("AddressOfEntryPoint", off0 + 16, 4),
                  Field("BaseOfCode", off0 + 20, 4) >>
        bod == IF is64Bit THEN <<>> ELSE << Field("BaseOfData", off0 + 24, 4) >>
        o1  == IF is64Bit THEN off0 + 24 ELSE off0 + 28     \* ImageBase
        o2  == o1 + w                                       \* SectionAlignment
        o3  == o2 + 8                                       \* MajorOSVersion
        o4  == o3 + 12                                      \* Win32VersionValue
        o5  == o4 + 16                                      \* Subsystem
        o6  == o5 + 4                                       \* SizeOfStackReserve
        o7  == o6 + 4 * w                                   \* LoaderFlags
    IN std \o bod \o
       << Field("ImageBase", o1, w),
          Field("SectionAlignment", o2, 4),
          Field("FileAlignment", o2 + 4, 4),
          Field("MajorOSVersion", o3, 2),
          Field("MinorOSVersion", o3 + 2, 2),
          Field("MajorImageVersion", o3 + 4, 2),
          Field("MinorImageVersion", o3 + 6, 2),
          Field("MajorSubsystemVersion", o3 + 8, 2),
          Field("MinorSubsystemVersion", o3 + 10, 2),
          Field("Win32VersionValue", o4, 4),
          Field("SizeOfImage", o4 + 4, 4),
          Field("SizeOfHeaders", o4 + 8, 4),
          Field("CheckSum", o4 + 12, 4),
          Field("Subsystem", o5, 2),
          Field("DllCharacteristics", o5 + 2, 2),
          Field("SizeOfStackReserve", o6, w),
          Field("SizeOfStackCommit", o6 + w, w),
          Field("SizeOfHeapReserve", o6 + 2 * w, w),
          Field("SizeOfHeapCommit", o6 + 3 * w, w),
          Field("LoaderFlags", o7, 4),
          Field("NumberOfRvaAndSizes", o7 + 4, 4) >>

\* The Data Directories loop from index i on: [threw, children].
RECURSIVE DataDirsFrom(_, _, _, _, _, _)
DataDirsFrom(b, dataDirsOffset, safeNumDirs, optEnd, i, children) ==
    LET currentDirOffset == dataDirsOffset + i * 8 IN
    IF i >= safeNumDirs THEN [threw |-> FALSE, children |-> children]
    ELSE IF currentDirOffset + 8 > optEnd THEN [threw |-> FALSE, children |-> children]
    ELSE IF ~CanRead(b, currentDirOffset, 8) THEN [threw |-> TRUE, children |-> children]
    ELSE LET rva  == getUint32(b, currentDirOffset, TRUE)
             size == getUint32(b, currentDirOffset + 4, TRUE)
             dir  == Region("Directory", <<i>>, currentDirOffset, 8, "Data Directory",
                            << Field("RVA", currentDirOffset, 4),
                               Field("Size", currentDirOffset + 4, 4) >>)
         IN DataDirsFrom(b, dataDirsOffset, safeNumDirs, optEnd, i + 1,
                         IF size > 0 \/ rva > 0 THEN Append(children, dir) ELSE children)

\* Step 4: the Optional Header region: [threw, region].
OptionalHeader(b, optHeaderOffset, sizeOfOptionalHeader) ==
    IF sizeOfOptionalHeader = 0
    THEN [threw |-> FALSE,
          region |-> Region("Optional Header", <<>>, optHeaderOffset, 0,
                            "Optional Header", <<>>)]
    ELSE IF ~CanRead(b, optHeaderOffset, 2) THEN [threw |-> TRUE]
    ELSE LET magic   == getUint16(b, optHeaderOffset, TRUE)
             is64Bit == magic = PE32PLUS_MAGIC
         IN IF ~CanRead(b, optHeaderOffset, OptFieldsSize(is64Bit)) THEN [threw |-> TRUE]
            ELSE LET dataDirsOffset == optHeaderOffset + OptFieldsSize(is64Bit)
                     numberOfRvaAndSizes == getUint32(b, dataDirsOffset - 4, TRUE)
                     safeNumDirs == Min(numberOfRvaAndSizes, MAX_DATA_DIRS)
                     dirs == DataDirsFrom(b, dataDirsOffset, safeNumDirs,
                                          optHeaderOffset + sizeOfOptionalHeader, 0, <<>>)
                     dataDirsRegion == Region("Data Directories", <<>>, dataDirsOffset,
                                              safeNumDirs * 8, "Data Directory", dirs.children)
                 IN IF dirs.threw THEN [threw |-> TRUE]
                    ELSE [threw |-> FALSE,
                          region |-> Region("Optional Header", <<>>, optHeaderOffset,
                                            sizeOfOptionalHeader, "Optional Header",
                                            Append(OptFields(optHeaderOffset, is64Bit),
                                                   dataDirsRegion))]

\* The children of the File Header region.
FileHeaderFields(fileHeaderOffset) ==
    << Field("Machine", fileHeaderOffset, 2),
       Field("NumberOfSections", fileHeaderOffset + 2, 2),
       Field("TimeDateStamp", fileHeaderOffset + 4, 4),
       Field("PointerToSymbolTable", fileHeaderOffset + 8, 4),
       Field("NumberOfSymbols", fileHeaderOffset + 12, 4),
       Field("SizeOfOptionalHeader", fileHeaderOffset + 16, 2),
       Field("Characteristics", fileHeaderOffset + 18, 2) >>

\* Step 5: the Section Headers loop from index i on:
\* [threw, headers, data, meta].
RECURSIVE SectionsFrom(_, _, _, _, _)
SectionsFrom(b, sectionHeadersOffset, numberOfSections, i, acc) ==
    LET offset == sectionHeadersOffset + i * SECTION_HEADER_SIZE IN
    IF i >= numberOfSections THEN acc
    ELSE IF ~CanRead(b, offset, 24) THEN [acc EXCEPT !.threw = TRUE]
    ELSE LET name             == readString(b, offset, 8)
             virtualSize      == getUint32(b, offset + 8, TRUE)
             virtualAddress   == getUint32(b, offset + 12, TRUE)
             sizeOfRawData    == getUint32(b, offset + 16, TRUE)
             pointerToRawData == getUint32(b, offset + 20, TRUE)
             meta == SectionMetadata(name, virtualAddress, virtualSize,
                                     pointerToRawData, sizeOfRawData)
             hdr  == Region("Header", name, offset, SECTION_HEADER_SIZE,
                            "Section Header", <<>>)
             actualSize == Min(sizeOfRawData, byteLength(b) - pointerToRawData)
             dat  == Region("Section", name, pointerToRawData, actualSize,
                            "Section Data", <<>>)
             hasData == sizeOfRawData > 0 /\ pointerToRawData > 0
                        /\ pointerToRawData < byteLength(b)
         IN SectionsFrom(b, sectionHeadersOffset, numberOfSections, i + 1,
                [threw   |-> FALSE,
                 headers |-> Append(acc.headers, hdr),
                 data    |-> IF hasData THEN Append(acc.data, dat) ELSE acc.data,
                 meta    |-> Append(acc.meta, meta)])

\* The trailing 'Overlay / EOF' region, appended when the last region of the
\* list ends before the end of the buffer.
WithOverlay(b, regions) ==
    LET lastRegion == regions[Len(regions)]
        endOfLastRegion == IF regions = <<>> THEN 0
                           ELSE lastRegion.offset + lastRegion.size
    IN IF endOfLastRegion < byteLength(b)
       THEN Append(regions, Region("Overlay / EOF", <<>>, endOfLastRegion,
                                   byteLength(b) - endOfLastRegion, "Overlay", <<>>))
       ELSE regions

\* Steps 3-6 of parsePE, after the PE signature has been accepted.
parsePEHeaders(b, e_lfanew, dosHeader) ==
    LET fileHeaderOffset == e_lfanew + 4 IN
    IF ~CanRead(b, fileHeaderOffset, FILE_HEADER_SIZE) THEN Threw
    ELSE
    LET numberOfSections     == getUint16(b, fileHeaderOffset + 2, TRUE)
        sizeOfOptionalHeader == getUint16(b, fileHeaderOffset + 16, TRUE)
        fileHeaderRegion == Region("File Header", <<>>, fileHeaderOffset, FILE_HEADER_SIZE,
                                   "File Header", FileHeaderFields(fileHeaderOffset))
        optHeaderOffset == fileHeaderOffset + FILE_HEADER_SIZE
        opt == OptionalHeader(b, optHeaderOffset, sizeOfOptionalHeader)
    IN IF opt.threw THEN Threw
       ELSE
       LET ntHeadersRegion ==
               Region("NT Headers", <<>>, e_lfanew, 4 + FILE_HEADER_SIZE + sizeOfOptionalHeader,
                      "NT Headers",
                      << Field("Signature", e_lfanew, 4), fileHeaderRegion, opt.region >>)
           sectionHeadersOffset == optHeaderOffset + sizeOfOptionalHeader
           secs == SectionsFrom(b, sectionHeadersOffset, numberOfSections, 0,
                       [threw |-> FALSE, headers |-> <<>>, data |-> <<>>, meta |-> <<>>])
           sectionHeadersRegion ==
               Region("Section Headers", <<>>, sectionHeadersOffset,
                      numberOfSections * SECTION_HEADER_SIZE, "Section Header", secs.headers)
           regions == << dosHeader, ntHeadersRegion, sectionHeadersRegion >>
                      \o SortByOffset(secs.data)
       IN IF secs.threw THEN Threw
          ELSE Returned(ParsedFile(b, WithOverlay(b, regions), secs.meta, TRUE, "", "PE"))

\* parsePE without the minimum-size guard: the DOS signature is read from
\* whatever the buffer holds.
parsePE_NoSizeCheck(b) ==
    IF ~CanRead(b, 0, 2) THEN Threw
    ELSE IF getUint16(b, 0, TRUE) # DOS_MAGIC
    THEN Returned(ParsedFile(b, <<>>, <<>>, FALSE, "Invalid DOS signature (not MZ)", "PE"))
    ELSE IF ~CanRead(b, 60, 4) THEN Threw
    ELSE Returned(ParsedFile(b, <<>>, <<>>, TRUE, "", "PE"))

\* The DOS Header left out of what is returned for a bad PE signature.
parsePE_SignatureFirst(b) ==
    IF byteLength(b) < PE_MIN_SIZE
    THEN Returned(ParsedFile(b, <<>>, <<>>, FALSE, "File too small", "PE"))
    ELSE IF getUint16(b, 0, TRUE) # DOS_MAGIC
    THEN Returned(ParsedFile(b, <<>>, <<>>, FALSE, "Invalid DOS signature (not MZ)", "PE"))
    ELSE
    LET e_lfanew  == getUint32(b, 60, TRUE)
        dosHeader == Region("DOS Header", <<>>, 0, 64, "DOS Header", <<>>)
    IN IF e_lfanew + 4 > byteLength(b)
       THEN Returned(ParsedFile(b, <<dosHeader>>, <<>>, FALSE, "Invalid PE offset", "PE"))
       ELSE IF getUint32(b, e_lfanew, TRUE) # PE_SIGNATURE
       THEN Returned(ParsedFile(b, <<>>, <<>>, FALSE, "Invalid PE signature", "PE"))
       ELSE parsePEHeaders(b, e_lfanew, dosHeader)

parsePE(b) ==
    IF byteLength(b) < PE_MIN_SIZE
    THEN Returned(ParsedFile(b, <<>>, <<>>, FALSE, "File too small", "PE"))
    ELSE IF getUint16(b, 0, TRUE) # DOS_MAGIC
    THEN Returned(ParsedFile(b, <<>>, <<>>, FALSE, "Invalid DOS signature (not MZ)", "PE"))
    ELSE
    LET e_lfanew  == getUint32(b, 60, TRUE)
        dosHeader == Region("DOS Header", <<>>, 0, 64, "DOS Header", <<>>)
    IN IF e_lfanew + 4 > byteLength(b)
       THEN Returned(ParsedFile(b, <<dosHeader>>, <<>>, FALSE, "Invalid PE offset", "PE"))
       ELSE IF getUint32(b, e_lfanew, TRUE) # PE_SIGNATURE
       THEN Returned(ParsedFile(b, <<dosHeader>>, <<>>, FALSE, "Invalid PE signature", "PE"))
       ELSE parsePEHeaders(b, e_lfanew, dosHeader)

----------------------------------------------------------------------------
(* parseMachO (services/machOParser.ts) *)

\* Magic numbers as the four bytes at the start of the file (a big-endian read).
MAGIC_32_LE == <<254, 237, 250, 206>>       \* 0xFEEDFACE
MAGIC_32_BE == <<206, 250, 237, 254>>       \* 0xCEFAEDFE
MAGIC_64_LE == <<254, 237, 250, 207>>       \* 0xFEEDFACF
MAGIC_64_BE == <<207, 250, 237, 254>>       \* 0xCFFAEDFE
FAT_MAGIC_BE == <<202, 254, 186, 190>>      \* 0xCAFEBABE
FAT_CIGAM_LE == <<190, 186, 254, 202>>      \* 0xBEBAFECA
FAT_MAGIC_64_BE == <<202, 254, 186, 191>>   \* 0xCAFEBABF
FAT_CIGAM_64_LE == <<191, 186, 254, 202>>   \* 0xBFBAFECA

LC_SEGMENT == <<0, 0, 0, 1>>                \* 0x1
LC_SEGMENT_64 == <<0, 0, 0, 25>>            \* 0x19
LC_MAIN == <<128, 0, 0, 40>>                \* 0x80000028

MACHO_MIN_SIZE == 28
FAT_ARCH_SIZE == 20

\* The section headers of one segment command, from section s on:
\* [children, meta].  A header that would run past the view ends the loop.
RECURSIVE MachOSectionsFrom(_, _, _, _, _, _, _, _)
MachOSectionsFrom(b, offset, isLE, isSeg64, nSects, s, sectOffset, acc) ==
    LET sectionHeaderSize == IF isSeg64 THEN 80 ELSE 68 IN
    IF s >= nSects THEN acc
    ELSE IF sectOffset + sectionHeaderSize > byteLength(b) THEN acc
    ELSE LET sName      == readString(b, sectOffset, 16)
             segNameRef == readString(b, sectOffset + 16, 16)
             sAddr   == IF isSeg64 THEN getBigUint64(b, sectOffset + 32, isLE)
                        ELSE getUint32(b, sectOffset + 32, isLE)
             sSize   == IF isSeg64 THEN getBigUint64(b, sectOffset + 40, isLE)
                        ELSE getUint32(b, sectOffset + 36, isLE)
             sOffset == getUint32(b, sectOffset + (IF isSeg64 THEN 48 ELSE 40), isLE)
             absoluteSectionOffset == offset + sOffset
         IN MachOSectionsFrom(b, offset, isLE, isSeg64, nSects, s + 1,
                sectOffset + sectionHeaderSize,
                [children |-> Append(acc.children,
                                  Region("Section", sName, sectOffset, sectionHeaderSize,
                                         "Section Header", <<>>)),
                 meta |-> Append(acc.meta,
                                  SectionMetadata(<<segNameRef, sName>>, sAddr, sSize,
                                                  absoluteSectionOffset, sSize))])

\* The segment data placed at fileoff, the slice offset left out.
SegmentCommand_SliceRelative(b, offset, isLE, isSeg64, currentCmdOffset, headerSize, sizeofCmds) ==
    IF currentCmdOffset + (IF isSeg64 THEN 72 ELSE 56) > byteLength(b)
    THEN [children |-> <<>>, meta |-> <<>>, segments |-> <<>>]
    ELSE
    LET segName  == readString(b, currentCmdOffset + 8, 16)
        fileOff  == IF isSeg64 THEN getBigUint64(b, currentCmdOffset + 40, isLE)
                    ELSE getUint32(b, currentCmdOffset + 32, isLE)
        fileSize == IF isSeg64 THEN getBigUint64(b, currentCmdOffset + 48, isLE)
                    ELSE getUint32(b, currentCmdOffset + 36, isLE)
        nSects   == getUint32(b, currentCmdOffset + (IF isSeg64 THEN 64 ELSE 48), isLE)
        sects    == MachOSectionsFrom(b, offset, isLE, isSeg64, nSects, 0,
                        currentCmdOffset + (IF isSeg64 THEN 72 ELSE 56),
                        [children |-> <<>>, meta |-> <<>>])
        absoluteSegmentOffset == fileOff
        emit == fileSize > 0 /\ absoluteSegmentOffset + fileSize <= byteLength(b)
                /\ fileOff >= headerSize + sizeofCmds
    IN [children |-> sects.children, meta |-> sects.meta,
        segments |-> IF emit
                     THEN << Region("Segment", segName, absoluteSegmentOffset, fileSize,
                                    "Segment", <<>>) >>
                     ELSE <<>>]

\* The decoding of one LC_SEGMENT / LC_SEGMENT_64 command at currentCmdOffset:
\* [children (section headers), meta, segments (data regions)].
SegmentCommand(b, offset, isLE, isSeg64, currentCmdOffset, headerSize, sizeofCmds) ==
    IF currentCmdOffset + (IF isSeg64 THEN 72 ELSE 56) > byteLength(b)
    THEN [children |-> <<>>, meta |-> <<>>, segments |-> <<>>]
    ELSE
    LET segName  == readString(b, currentCmdOffset + 8, 16)
        fileOff  == IF isSeg64 THEN getBigUint64(b, currentCmdOffset + 40, isLE)
                    ELSE getUint32(b, currentCmdOffset + 32, isLE)
        fileSize == IF isSeg64 THEN getBigUint64(b, currentCmdOffset + 48, isLE)
                    ELSE getUint32(b, currentCmdOffset + 36, isLE)
        nSects   == getUint32(b, currentCmdOffset + (IF isSeg64 THEN 64 ELSE 48), isLE)
        sects    == MachOSectionsFrom(b, offset, isLE, isSeg64, nSects, 0,
                        currentCmdOffset + (IF isSeg64 THEN 72 ELSE 56),
                        [children |-> <<>>, meta |-> <<>>])
        absoluteSegmentOffset == offset + fileOff
        emit == fileSize > 0 /\ absoluteSegmentOffset + fileSize <= byteLength(b)
                /\ fileOff >= headerSize + sizeofCmds
    IN [children |-> sects.children, meta |-> sects.meta,
        segments |-> IF emit
                     THEN << Region("Segment", segName, absoluteSegmentOffset, fileSize,
                                    "Segment", <<>>) >>
                     ELSE <<>>]

\* The end of one iteration of the load-command loop: the LC_MAIN read, the
\* push of cmdRegion and the advance of currentCmdOffset.  seg is what the
\* segment decoding of this command produced.
LoadCommandEnd(b, st, cmd, cmdSize, seg) ==
    IF cmd = LC_MAIN /\ ~CanRead(b, st.off + 8, 8)
    THEN [st EXCEPT !.stop = TRUE, !.threw = TRUE,
                    !.segments = st.segments \o seg.segments,
                    !.meta = st.meta \o seg.meta]
    ELSE [stop |-> FALSE, threw |-> FALSE, off |-> st.off + cmdSize,
          cmds |-> Append(st.cmds,
                          Region("Load Command", cmd, st.off, cmdSize, "Load Command",
                                 << Field("Command", st.off, 4),
                                    Field("CmdSize", st.off + 4, 4) >> \o seg.children)),
          segments |-> st.segments \o seg.segments,
          meta |-> st.meta \o seg.meta]

\* The segment decoding of the command cmd at st.off (nothing for a command
\* that is neither LC_SEGMENT nor LC_SEGMENT_64).
LoadCommandSegment(b, offset, isLE, headerSize, sizeofCmds, st, cmd) ==
    IF cmd = LC_SEGMENT \/ cmd = LC_SEGMENT_64
    THEN SegmentCommand(b, offset, isLE, cmd = LC_SEGMENT_64, st.off, headerSize, sizeofCmds)
    ELSE [children |-> <<>>, meta |-> <<>>, segments |-> <<>>]

\* One iteration of the load-command loop on the loop state
\* st = [stop, threw, off (currentCmdOffset), cmds, segments, meta].
LoadCommandStep(b, offset, isLE, headerSize, sizeofCmds, st) ==
    IF st.stop THEN st
    ELSE IF st.off + 8 > byteLength(b) THEN [st EXCEPT !.stop = TRUE]
    ELSE LoadCommandEnd(b, st, BytesMSB(b, st.off, 4, isLE), getUint32(b, st.off + 4, isLE),
             LoadCommandSegment(b, offset, isLE, headerSize, sizeofCmds, st,
                                BytesMSB(b, st.off, 4, isLE)))

\* for (let i = 0; i < nCmds; i++): n iterations of the loop body.
RECURSIVE LoadCommands(_, _, _, _, _, _, _)
LoadCommands(b, offset, isLE, headerSize, sizeofCmds, n, st) ==
    IF n = 0 \/ st.stop THEN st
    ELSE LoadCommands(b, offset, isLE, headerSize, sizeofCmds, n - 1,
                      LoadCommandStep(b, offset, isLE, headerSize, sizeofCmds, st))

\* What parseMachOAtOffset returns once the load commands have been walked:
\* the header, the segment data regions, then the Load Commands region.
MachOImage(offset, headerSize, sizeofCmds, walk) ==
    [threw |-> walk.threw,
     regions |-> << Region("Mach-O Header", <<>>, offset, headerSize, "Mach-O Header", <<>>) >>
                 \o walk.segments
                 \o << Region("Load Commands", <<>>, offset + headerSize, sizeofCmds,
                              "Load Command", walk.cmds) >>,
     sectionsMetadata |-> walk.meta]

\* parseMachOAtOffset from the header on, the magic having fixed isLE and
\* headerSize.
MachOHeader(b, offset, isLE, headerSize) ==
    IF offset + headerSize > byteLength(b)
    THEN [threw |-> FALSE, regions |-> <<>>, sectionsMetadata |-> <<>>]
    ELSE MachOImage(offset, headerSize, getUint32(b, offset + 20, isLE),
             LoadCommands(b, offset, isLE, headerSize, getUint32(b, offset + 20, isLE),
                 getUint32(b, offset + 16, isLE),
                 [stop |-> FALSE, threw |-> FALSE, off |-> offset + headerSize,
                  cmds |-> <<>>, segments |-> <<>>, meta |-> <<>>]))

\* parseMachOAtOffset(view, offset, sizeLimit, palette, prefix):
\* [threw, regions, sectionsMetadata].  sizeLimit is never read.
parseMachOAtOffset(b, offset, sizeLimit) ==
    LET magic == BytesMSB(b, offset, 4, FALSE) IN
    IF offset + 4 > byteLength(b) \/
       magic \notin {MAGIC_32_LE, MAGIC_32_BE, MAGIC_64_LE, MAGIC_64_BE}
    THEN [threw |-> FALSE, regions |-> <<>>, sectionsMetadata |-> <<>>]
    ELSE MachOHeader(b, offset, magic \in {MAGIC_32_BE, MAGIC_64_BE},
                     IF magic \in {MAGIC_64_LE, MAGIC_64_BE} THEN 32 ELSE 28)

\* One fat_arch entry: the Arch Def region and, when the slice's range is
\* valid, the Slice region holding what parseMachOAtOffset found in it.
FatArchEntry(b, acc, offset, cputype, sliceOffset, sliceSize, sliceParse) ==
    IF ~(sliceOffset > 0 /\ sliceOffset + sliceSize <= byteLength(b))
    THEN [acc EXCEPT !.regions =
              Append(acc.regions,
                     Region("Arch Def", cputype, offset, FAT_ARCH_SIZE, "Fat Header", <<>>))]
    ELSE [threw   |-> sliceParse.threw,
          regions |-> acc.regions \o
                      << Region("Arch Def", cputype, offset, FAT_ARCH_SIZE, "Fat Header", <<>>),
                         Region("Slice", cputype, sliceOffset, sliceSize, "Segment",
                                sliceParse.regions) >>,
          sectionsMetadata |-> acc.sectionsMetadata \o sliceParse.sectionsMetadata]

\* The slice of the fat_arch entry at offset, parsed.
FatSlice(b, offset, isLE) ==
    parseMachOAtOffset(b, getUint32(b, offset + 8, isLE), getUint32(b, offset + 12, isLE))

\* The fat_arch loop of parseMachO from entry i on:
\* [threw, regions, sectionsMetadata].
RECURSIVE FatArchsFrom(_, _, _, _, _)
FatArchsFrom(b, isLE, nFatArch, i, acc) ==
    IF i >= nFatArch \/ acc.threw THEN acc
    ELSE IF 8 + i * FAT_ARCH_SIZE + FAT_ARCH_SIZE > byteLength(b) THEN acc
    ELSE FatArchsFrom(b, isLE, nFatArch, i + 1,
             FatArchEntry(b, acc, 8 + i * FAT_ARCH_SIZE,
                          BytesMSB(b, 8 + i * FAT_ARCH_SIZE, 4, isLE),
                          getUint32(b, 8 + i * FAT_ARCH_SIZE + 8, isLE),
                          getUint32(b, 8 + i * FAT_ARCH_SIZE + 12, isLE),
                          FatSlice(b, 8 + i * FAT_ARCH_SIZE, isLE)))

\* The ParsedFile parseMachO returns for the regions collected.
MachOParsed(b, result) ==
    IF result.threw THEN Threw
    ELSE Returned(ParsedFile(b, SortByOffset(result.regions), result.sectionsMetadata,
                             TRUE, "", "Mach-O"))

\* The Fat / Universal branch of parseMachO.
parseFat(b, isLE) ==
    MachOParsed(b, FatArchsFrom(b, isLE, getUint32(b, 4, isLE), 0,
                       [threw |-> FALSE,
                        regions |-> << Region("Fat Header", <<>>, 0, 8, "Fat Header", <<>>) >>,
                        sectionsMetadata |-> <<>>]))

parseMachO(b) ==
    IF byteLength(b) < MACHO_MIN_SIZE
    THEN Returned(ParsedFile(b, <<>>, <<>>, FALSE, "File too small", "Mach-O"))
    ELSE IF BytesMSB(b, 0, 4, FALSE) \in
                {FAT_MAGIC_BE, FAT_CIGAM_LE, FAT_MAGIC_64_BE, FAT_CIGAM_64_LE}
    THEN parseFat(b, BytesMSB(b, 0, 4, FALSE) \in {FAT_CIGAM_LE, FAT_CIGAM_64_LE})
    ELSE MachOParsed(b, parseMachOAtOffset(b, 0, byteLength(b)))

----------------------------------------------------------------------------
(* parseELF (services/elfParser.ts) *)

ELF_MIN_SIZE == 16
ELF_MAGIC == <<127, 69, 76, 70>>            \* 0x7F 'E' 'L' 'F'
ELFCLASS64 == 2
ELFDATA2LSB == 1
SHT_STRTAB == 3
SHT_NOBITS == 8
ELF_NAME_LIMIT == 256

\* readString(view, offset) of elfParser: bounded by the view and by 256.
elfReadString(b, offset) ==
    LET maxLen == byteLength(b) - offset IN
    IF maxLen <= 0 THEN <<>> ELSE readString(b, offset, Min(maxLen, ELF_NAME_LIMIT))

\* An address-sized field: 8 bytes in a 64-bit file, 4 bytes otherwise.
elfWord(b, off, is64, isLE) ==
    IF is64 THEN getBigUint64(b, off, isLE) ELSE getUint32(b, off, isLE)

\* The program-header loop from entry i on: [threw, children].
RECURSIVE ProgramHeadersFrom(_, _, _, _, _, _, _)
ProgramHeadersFrom(b, is64, isLE, phOffset, e_phentsize, e_phnum, i) ==
    LET currOff == phOffset + i * e_phentsize IN
    IF i >= e_phnum THEN [threw |-> FALSE, children |-> <<>>]
    ELSE IF ~CanRead(b, currOff, IF is64 THEN 56 ELSE 32)
    THEN [threw |-> TRUE, children |-> <<>>]
    ELSE LET rest == ProgramHeadersFrom(b, is64, isLE, phOffset, e_phentsize, e_phnum, i + 1)
             p_type == BytesMSB(b, currOff, 4, isLE)
         IN [threw |-> rest.threw,
             children |-> << Region("PH", <<i>> \o p_type, currOff, e_phentsize,
                                    "Program Header", <<>>) >> \o rest.children]

\* The first pass over the section headers, from entry i on:
\* [threw, tempSections].
RECURSIVE TempSectionsFrom(_, _, _, _, _, _, _)
TempSectionsFrom(b, is64, isLE, shOffset, e_shentsize, e_shnum, i) ==
    LET currOff == shOffset + i * e_shentsize IN
    IF i >= e_shnum THEN [threw |-> FALSE, tempSections |-> <<>>]
    ELSE IF ~CanRead(b, currOff, IF is64 THEN 64 ELSE 40)
    THEN [threw |-> TRUE, tempSections |-> <<>>]
    ELSE LET rest == TempSectionsFrom(b, is64, isLE, shOffset, e_shentsize, e_shnum, i + 1)
             sec == [index |-> i,
                     nameIdx |-> getUint32(b, currOff, isLE),
                     type |-> getUint32(b, currOff + 4, isLE),
                     addr |-> elfWord(b, currOff + (IF is64 THEN 16 ELSE 12), is64, isLE),
                     offset |-> elfWord(b, currOff + (IF is64 THEN 24 ELSE 16), is64, isLE),
                     size |-> elfWord(b, currOff + (IF is64 THEN 32 ELSE 20), is64, isLE),
                     headerOffset |-> currOff]
         IN [threw |-> rest.threw, tempSections |-> <<sec>> \o rest.tempSections]

\* The name of a section: read from the string table when there is one, else
\* the default `Section ${index}`, written <<-1, index>>.
elfSectionName(b, stringTableOffset, sec) ==
    IF stringTableOffset > 0 /\ sec.nameIdx > 0
       /\ stringTableOffset + sec.nameIdx < byteLength(b)
    THEN elfReadString(b, stringTableOffset + sec.nameIdx)
    ELSE <<-1, sec.index>>

\* tempSections.forEach(...) from section k on: [headers, data, meta].
\* A data region for every section with bytes in the file, wherever its
\* header says they end.
RECURSIVE ElfSectionRegionsFrom_Unchecked(_, _, _, _, _)
ElfSectionRegionsFrom_Unchecked(b, tempSections, stringTableOffset, e_shentsize, k) ==
    IF k > Len(tempSections) THEN [headers |-> <<>>, data |-> <<>>, meta |-> <<>>]
    ELSE LET sec  == tempSections[k]
             rest == ElfSectionRegionsFrom_Unchecked(b, tempSections, stringTableOffset,
                                                     e_shentsize, k + 1)
             name == elfSectionName(b, stringTableOffset, sec)
             hasData == sec.type # SHT_NOBITS /\ sec.size > 0
         IN [headers |-> << Region("SH", name, sec.headerOffset, e_shentsize,
                                   "Section Header", <<>>) >> \o rest.headers,
             data |-> (IF hasData
                       THEN << Region("Section", name, sec.offset, sec.size,
                                      "Section Data", <<>>) >>
                       ELSE <<>>) \o rest.data,
             meta |-> << SectionMetadata(name, sec.addr, sec.size, sec.offset, sec.size) >>
                      \o rest.meta]

\* The same loop with a data region for SHT_NOBITS sections as well.
RECURSIVE ElfSectionRegionsFrom_NobitsData(_, _, _, _, _)
ElfSectionRegionsFrom_NobitsData(b, tempSections, stringTableOffset, e_shentsize, k) ==
    IF k > Len(tempSections) THEN [headers |-> <<>>, data |-> <<>>, meta |-> <<>>]
    ELSE LET sec  == tempSections[k]
             rest == ElfSectionRegionsFrom_NobitsData(b, tempSections, stringTableOffset,
                                                      e_shentsize, k + 1)
             name == elfSectionName(b, stringTableOffset, sec)
             hasData == sec.size > 0 /\ sec.offset + sec.size <= byteLength(b)
         IN [headers |-> << Region("SH", name, sec.headerOffset, e_shentsize,
                                   "Section Header", <<>>) >> \o rest.headers,
             data |-> (IF hasData
                       THEN << Region("Section", name, sec.offset, sec.size,
                                      "Section Data", <<>>) >>
                       ELSE <<>>) \o rest.data,
             meta |-> << SectionMetadata(name, sec.addr, sec.size, sec.offset, sec.size) >>
                      \o rest.meta]

RECURSIVE ElfSectionRegionsFrom(_, _, _, _, _)
ElfSectionRegionsFrom(b, tempSections, stringTableOffset, e_shentsize, k) ==
    IF k > Len(tempSections) THEN [headers |-> <<>>, data |-> <<>>, meta |-> <<>>]
    ELSE LET sec  == tempSections[k]
             rest == ElfSectionRegionsFrom(b, tempSections, stringTableOffset, e_shentsize, k + 1)
             name == elfSectionName(b, stringTableOffset, sec)
             hasData == sec.type # SHT_NOBITS /\ sec.size > 0
                        /\ sec.offset + sec.size <= byteLength(b)
         IN [headers |-> << Region("SH", name, sec.headerOffset, e_shentsize,
                                   "Section Header", <<>>) >> \o rest.headers,
             data |-> (IF hasData
                       THEN << Region("Section", name, sec.offset, sec.size,
                                      "Section Data", <<>>) >>
                       ELSE <<>>) \o rest.data,
             meta |-> << SectionMetadata(name, sec.addr, sec.size, sec.offset, sec.size) >>
                      \o rest.meta]

\* Step 3: [threw, regions] of the program headers.
elfProgramHeaders(b, is64, isLE, e_phoff, e_phentsize, e_phnum) ==
    IF ~(e_phnum > 0 /\ e_phoff > 0) \/ e_phoff + e_phnum * e_phentsize > byteLength(b)
    THEN [threw |-> FALSE, regions |-> <<>>]
    ELSE LET phs == ProgramHeadersFrom(b, is64, isLE, e_phoff, e_phentsize, e_phnum, 0)
         IN [threw |-> phs.threw,
             regions |-> << Region("Program Headers", <<>>, e_phoff, e_phnum * e_phentsize,
                                   "Program Header", phs.children) >>]

\* Step 4: [threw, regions, meta] of the section headers and section data.
elfSections(b, is64, isLE, e_shoff, e_shentsize, e_shnum, e_shstrndx) ==
    IF ~(e_shnum > 0 /\ e_shoff > 0) \/ e_shoff + e_shnum * e_shentsize > byteLength(b)
    THEN [threw |-> FALSE, regions |-> <<>>, meta |-> <<>>]
    ELSE LET temp == TempSectionsFrom(b, is64, isLE, e_shoff, e_shentsize, e_shnum, 0) IN
         IF temp.threw THEN [threw |-> TRUE, regions |-> <<>>, meta |-> <<>>]
         ELSE
         LET tempSections == temp.tempSections
             stringTableOffset ==
                 IF e_shstrndx # 0 /\ e_shstrndx < Len(tempSections)
                    /\ tempSections[e_shstrndx + 1].type = SHT_STRTAB
                 THEN tempSections[e_shstrndx + 1].offset
                 ELSE -1
             built == ElfSectionRegionsFrom(b, tempSections, stringTableOffset, e_shentsize, 1)
             sectionsRegion == Region("Section Headers", <<>>, e_shoff, e_shnum * e_shentsize,
                                      "Section Header", built.headers)
         IN [threw |-> FALSE, regions |-> <<sectionsRegion>> \o built.data,
             meta |-> built.meta]

parseELF(b) ==
    IF byteLength(b) < ELF_MIN_SIZE
    THEN Returned(ParsedFile(b, <<>>, <<>>, FALSE, "File too small", "ELF"))
    ELSE IF BytesMSB(b, 0, 4, FALSE) # ELF_MAGIC
    THEN Returned(ParsedFile(b, <<>>, <<>>, FALSE, "Invalid ELF magic", "ELF"))
    ELSE
    LET is64 == getUint8(b, 4) = ELFCLASS64
        isLE == getUint8(b, 5) = ELFDATA2LSB
        headerSize == IF is64 THEN 64 ELSE 52
        w == IF is64 THEN 8 ELSE 4
    IN IF ~CanRead(b, 16, headerSize - 16) THEN Threw
       ELSE
       LET e_phoff     == elfWord(b, 24 + w, is64, isLE)
           e_shoff     == elfWord(b, 24 + 2 * w, is64, isLE)
           tail        == 24 + 3 * w + 4 + 2      \* offset of e_phentsize
           e_phentsize == getUint16(b, tail, isLE)
           e_phnum     == getUint16(b, tail + 2, isLE)
           e_shentsize == getUint16(b, tail + 4, isLE)
           e_shnum     == getUint16(b, tail + 6, isLE)
           e_shstrndx  == getUint16(b, tail + 8, isLE)
           elfHeader == Region("ELF Header", <<>>, 0, headerSize, "ELF Header",
                               << Field("Magic", 0, 4), Field("Class", 4, 1),
                                  Field("Data", 5, 1), Field("Type", 16, 2),
                                  Field("Machine", 18, 2), Field("Entry", 24, w) >>)
           ph == elfProgramHeaders(b, is64, isLE, e_phoff, e_phentsize, e_phnum)
           sh == elfSections(b, is64, isLE, e_shoff, e_shentsize, e_shnum, e_shstrndx)
       IN IF ph.threw \/ sh.threw THEN Threw
          ELSE Returned(ParsedFile(b, SortByOffset(<<elfHeader>> \o ph.regions \o sh.regions),
                                   sh.meta, TRUE, "", "ELF"))

----------------------------------------------------------------------------
(* handleFile (App.tsx): format detection and dispatch *)

MACHO_MAGICS ==
    {MAGIC_32_LE, MAGIC_32_BE, MAGIC_64_LE, MAGIC_64_BE,
     FAT_MAGIC_BE, FAT_CIGAM_LE, FAT_MAGIC_64_BE, FAT_CIGAM_64_LE}

\* "PE" | "ELF" | "Mach-O": the parser the detection dispatches to.
DetectFormat(b) ==
    IF byteLength(b) >= 4
    THEN IF getUint16(b, 0, TRUE) = DOS_MAGIC THEN "PE"
         ELSE IF BytesMSB(b, 0, 4, FALSE) = ELF_MAGIC THEN "ELF"
         ELSE IF BytesMSB(b, 0, 4, FALSE) \in MACHO_MAGICS THEN "Mach-O"
         ELSE "PE"
    ELSE "PE"

\* The detect-and-parse step of handleFile: the value of parsedFile, or the
\* exception the parser let escape.
DetectAndParse(b) ==
    CASE DetectFormat(b) = "PE" -> parsePE(b)
      [] DetectFormat(b) = "ELF" -> parseELF(b)
      [] DetectFormat(b) = "Mach-O" -> parseMachO(b)

----------------------------------------------------------------------------
(* Input files.  These build the byte buffers the parsers are run on; a    *)
(* write that falls outside the file's length is dropped, which is how a   *)
(* truncated file arises.                                                  *)

\* An all-zero file of the given length.
Blank(len) == [len |-> len, data |-> <<>>]

\* The file b with the given bytes written at off.
Zeros(n) == [i \in 1..n |-> 0]

Put(b, off, bytes) ==
    LET padded == IF Len(b.data) >= off THEN b.data
                  ELSE b.data \o Zeros(off - Len(b.data))
        after  == off + Len(bytes)
        full   == SubSeq(padded, 1, off) \o bytes
                  \o (IF Len(padded) > after THEN SubSeq(padded, after + 1, Len(padded))
                      ELSE <<>>)
    IN [len |-> b.len,
        data |-> IF Len(full) > b.len THEN SubSeq(full, 1, b.len) ELSE full]

\* Byte k (0 the least significant) of v, a value below 2^31.
ByteOf(v, k) == IF k >= 4 THEN 0 ELSE (v \div Pow256(k)) % 256

\* The n bytes of v, least significant first when isLE.
IntBytes(v, n, isLE) ==
    <<>> \o [k \in 1..n |-> IF isLE THEN ByteOf(v, k - 1) ELSE ByteOf(v, n - k)]

PutInt(b, off, v, n, isLE) == Put(b, off, IntBytes(v, n, isLE))

\* Apply a sequence of writes <<off, bytes>>.
RECURSIVE PutAll(_, _)
PutAll(b, writes) ==
    IF writes = <<>> THEN b
    ELSE PutAll(Put(b, writes[1][1], writes[1][2]), Tail(writes))

RECURSIVE Flatten(_)
Flatten(ss) == IF ss = <<>> THEN <<>> ELSE ss[1] \o Flatten(Tail(ss))

\* All sequences of length at most n over the set S.
RECURSIVE SeqsUpTo(_, _)
SeqsUpTo(S, n) ==
    IF n = 0 THEN {<<>>}
    ELSE LET shorter == SeqsUpTo(S, n - 1)
         IN shorter \cup {Append(q, x) : q \in {t \in shorter : Len(t) = n - 1}, x \in S}

MaxSections == 2        \* sections described by a PE or ELF input
MaxFatArch == 2         \* fat_arch entries of a Fat Mach-O input

\* --- PE ---

\* A section header: Name, VirtualSize, VirtualAddress, SizeOfRawData,
\* PointerToRawData.
PESectionWrites(at, sec) ==
    << <<at, sec.name>>,
       <<at + 8, IntBytes(sec.vsize, 4, TRUE)>>,
       <<at + 12, IntBytes(sec.va, 4, TRUE)>>,
       <<at + 16, IntBytes(sec.raw, 4, TRUE)>>,
       <<at + 20, IntBytes(sec.ptr, 4, TRUE)>> >>

\* A PE image of length len: DOS header with e_lfanew, signature, file header
\* with Len(secs) sections and the given SizeOfOptionalHeader, optional-header
\* magic and NumberOfRvaAndSizes, one non-empty data directory, the section
\* headers right after the optional header.
MkPE(len, lfanew, sig, optSize, magic, nDirs, secs) ==
    LET opt     == lfanew + 24
        dirsAt  == opt + (IF magic = PE32PLUS_MAGIC THEN 112 ELSE 96)
        secsAt  == opt + optSize
    IN PutAll(Blank(len),
         << <<0, <<77, 90>>>>,
            <<60, IntBytes(lfanew, 4, TRUE)>>,
            <<lfanew, IntBytes(sig, 4, TRUE)>>,
            <<lfanew + 6, IntBytes(Len(secs), 2, TRUE)>>,
            <<lfanew + 20, IntBytes(optSize, 2, TRUE)>> >>
         \o (IF optSize > 0
             THEN << <<opt, IntBytes(magic, 2, TRUE)>>,
                     <<dirsAt - 4, IntBytes(nDirs, 4, TRUE)>>,
                     <<dirsAt + 8, IntBytes(4096, 4, TRUE)>>,
                     <<dirsAt + 12, IntBytes(40, 4, TRUE)>> >>
             ELSE <<>>)
         \o Flatten([i \in 1..Len(secs) |->
                        PESectionWrites(secsAt + (i - 1) * 40, secs[i])]))

PESectionChoices ==
    { [name |-> <<46, 116>>, vsize |-> 80, va |-> 4096, raw |-> 96, ptr |-> 448],
      [name |-> <<46, 100>>, vsize |-> 300, va |-> 8192, raw |-> 32, ptr |-> 480],
      [name |-> <<46, 98>>, vsize |-> 16, va |-> 12288, raw |-> 0, ptr |-> 0],
      [name |-> <<46, 114>>, vsize |-> 32, va |-> 16384, raw |-> 400, ptr |-> 512] }

PEOptChoices ==
    { [size |-> 0, magic |-> 0],
      [size |-> 224, magic |-> 267],
      [size |-> 240, magic |-> 523],
      [size |-> 112, magic |-> 267],
      [size |-> 40, magic |-> 267] }

PELengths == {64, 80, 100, 200, 320, 400, 480, 544, 600}

\* b is one of the PE inputs.
PEInput(b) ==
    \/ \E len \in PELengths, lfanew \in {64, 128}, o \in PEOptChoices, nDirs \in {0, 16},
          secs \in SeqsUpTo(PESectionChoices, MaxSections) :
            b = MkPE(len, lfanew, PE_SIGNATURE, o.size, o.magic, nDirs, secs)
    \/ \E len \in {64, 200}, lfanew \in {64, 1000} :
            b = MkPE(len, lfanew, 0, 0, 0, 0, <<>>)
    \/ \E len \in {200, 320}, ptr \in {16, 70} :
            b = MkPE(len, 64, PE_SIGNATURE, 0, 0, 0,
                     << [name |-> <<46, 116>>, vsize |-> 16, va |-> 4096,
                         raw |-> 16, ptr |-> ptr] >>)

\* --- Files with no recognised magic, and files shorter than 4 bytes ---

RawInput(b) ==
    \E d \in SeqsUpTo({0, 77, 90, 127}, 3) \cup
              { <<90, 77, 0, 0>>, <<127, 69, 76, 0>>, <<254, 237, 250, 0>>,
                <<0, 0, 0, 0>>, <<80, 69, 0, 0>>, <<77, 0, 90, 0>> },
       pad \in {0, 1, 60, 100} :
        b = [len |-> Len(d) + pad, data |-> d]

\* --- Mach-O ---

MaxCmds == 2            \* load commands written into a Mach-O input

\* Four bytes given most significant first, in file order.
FileOrder(msb, isLE) == IF isLE THEN [k \in 1..4 |-> msb[5 - k]] ELSE msb

\* The writes of one section header of a segment command.
MachOSectionWrites(at, isLE, is64, sect) ==
    << <<at, sect.name>>,
       <<at + 16, <<95, 95, 84>>>>,
       <<at + 32, IntBytes(sect.addr, IF is64 THEN 8 ELSE 4, isLE)>>,
       <<at + (IF is64 THEN 40 ELSE 36), IntBytes(sect.size, IF is64 THEN 8 ELSE 4, isLE)>>,
       <<at + (IF is64 THEN 48 ELSE 40), IntBytes(sect.offset, 4, isLE)>> >>

\* The writes of one load command at c: a segment ("seg", with fileoff,
\* filesize and section headers), LC_MAIN ("main") or LC_SYMTAB ("other").
MachOCmdWrites(c, isLE, is64, cmd) ==
    LET id == CASE cmd.kind = "seg" -> IF is64 THEN LC_SEGMENT_64 ELSE LC_SEGMENT
                [] cmd.kind = "main" -> LC_MAIN
                [] OTHER -> <<0, 0, 0, 2>>
    IN << <<c, FileOrder(id, isLE)>>, <<c + 4, IntBytes(cmd.cmdsize, 4, isLE)>> >>
       \o (IF cmd.kind = "seg"
           THEN << <<c + 8, <<95, 95, 84>>>>,
                   <<c + (IF is64 THEN 40 ELSE 32),
                     IntBytes(cmd.fileoff, IF is64 THEN 8 ELSE 4, isLE)>>,
                   <<c + (IF is64 THEN 48 ELSE 36),
                     IntBytes(cmd.filesize, IF is64 THEN 8 ELSE 4, isLE)>>,
                   <<c + (IF is64 THEN 64 ELSE 48), IntBytes(Len(cmd.sects), 4, isLE)>> >>
                \o Flatten([k \in 1..Len(cmd.sects) |->
                       MachOSectionWrites(c + (IF is64 THEN 72 ELSE 56)
                                            + (k - 1) * (IF is64 THEN 80 ELSE 68),
                                          isLE, is64, cmd.sects[k])])
           ELSE <<>>)

RECURSIVE MachOCmdsWrites(_, _, _, _)
MachOCmdsWrites(c, isLE, is64, cmds) ==
    IF cmds = <<>> THEN <<>>
    ELSE MachOCmdWrites(c, isLE, is64, cmds[1])
         \o MachOCmdsWrites(c + cmds[1].cmdsize, isLE, is64, Tail(cmds))

\* The writes of a single-architecture Mach-O image placed at file offset o.
MachOWrites(o, isLE, is64, nCmds, sizeofCmds, cmds) ==
    LET magic == IF is64 THEN (IF isLE THEN MAGIC_64_BE ELSE MAGIC_64_LE)
                 ELSE (IF isLE THEN MAGIC_32_BE ELSE MAGIC_32_LE)
    IN << <<o, magic>>,
          <<o + 16, IntBytes(nCmds, 4, isLE)>>,
          <<o + 20, IntBytes(sizeofCmds, 4, isLE)>> >>
       \o MachOCmdsWrites(o + (IF is64 THEN 32 ELSE 28), isLE, is64, cmds)

MachOSectChoices ==
    { <<>>,
      << [name |-> <<95, 116>>, addr |-> 4096, size |-> 16, offset |-> 160] >> }

MachOCmdChoices ==
    { [kind |-> "seg", cmdsize |-> 56 + 68 * Len(ss), fileoff |-> d[1], filesize |-> d[2],
       sects |-> ss] : ss \in MachOSectChoices,
                       d \in {<<160, 32>>, <<0, 32>>, <<160, 400>>} }
    \cup { [kind |-> "main", cmdsize |-> 24], [kind |-> "main", cmdsize |-> 8],
           [kind |-> "other", cmdsize |-> 24], [kind |-> "other", cmdsize |-> 4000] }

RECURSIVE SumCmdSizes(_)
SumCmdSizes(cmds) == IF cmds = <<>> THEN 0 ELSE cmds[1].cmdsize + SumCmdSizes(Tail(cmds))

MachOInput(b) ==
    \/ \E len \in {28, 40, 48, 100, 200}, isLE \in BOOLEAN, extra \in {0, 1},
          cmds \in SeqsUpTo(MachOCmdChoices, MaxCmds) :
            b = PutAll(Blank(len), MachOWrites(0, isLE, FALSE, Len(cmds) + extra,
                                               SumCmdSizes(cmds), cmds))
    \/ \E len \in {28, 32, 120, 300},
          cmds \in SeqsUpTo({c \in MachOCmdChoices : c.kind # "other"}, 1) :
            b = PutAll(Blank(len), MachOWrites(0, TRUE, TRUE, Len(cmds),
                                               SumCmdSizes(cmds), cmds))
    \/ \E len \in {4, 27}, m \in MACHO_MAGICS : b = Put(Blank(len), 0, m)

\* The slices a Fat input may declare: where the slice lies, and the Mach-O
\* image written at its start (none for kind "empty").
FatArchChoices ==
    { [off |-> 48, size |-> 200, kind |-> "good"],
      [off |-> 248, size |-> 200, kind |-> "good"],
      [off |-> 248, size |-> 100, kind |-> "segment"],
      [off |-> 48, size |-> 60, kind |-> "commands"],
      [off |-> 148, size |-> 200, kind |-> "good"],
      [off |-> 48, size |-> 200, kind |-> "empty"],
      [off |-> 0, size |-> 40, kind |-> "empty"],
      [off |-> 400, size |-> 4000, kind |-> "good"],
      [off |-> 248, size |-> 200, kind |-> "sections"] }

\* The image of a slice: one LC_SEGMENT whose data lies after the commands.
\* "good": 32 bytes at slice offset 100; "segment": data reaching past the
\* slice's declared size; "commands": a sizeofCmds larger than the slice;
\* "sections": a segment of 32 bytes at slice offset 160 with one section
\* header whose offset field is 160.
FatSliceWrites(a, isLE) ==
    LET seg(fo, fs) == << [kind |-> "seg", cmdsize |-> 56, fileoff |-> fo,
                           filesize |-> fs, sects |-> <<>>] >>
    IN CASE a.kind = "good" -> MachOWrites(a.off, isLE, FALSE, 1, 56, seg(100, 32))
         [] a.kind = "segment" -> MachOWrites(a.off, isLE, FALSE, 1, 56, seg(90, 120))
         [] a.kind = "commands" -> MachOWrites(a.off, isLE, FALSE, 0, 300, <<>>)
         [] a.kind = "sections" ->
                MachOWrites(a.off, isLE, FALSE, 1, 124,
                    << [kind |-> "seg", cmdsize |-> 124, fileoff |-> 160, filesize |-> 32,
                        sects |-> << [name |-> <<95, 116>>, addr |-> 4096, size |-> 16,
                                      offset |-> 160] >>] >>)
         [] OTHER -> <<>>

FatArchWrites(at, a, isLE) ==
    << <<at, IntBytes(7, 4, isLE)>>,
       <<at + 8, IntBytes(a.off, 4, isLE)>>,
       <<at + 12, IntBytes(a.size, 4, isLE)>> >>

\* A Fat/Universal file declaring nFatArch entries, with the given fat_arch
\* entries and slice images written.
MkFat(len, isLE, nFatArch, archs) ==
    PutAll(Blank(len),
        << <<0, IF isLE THEN FAT_CIGAM_LE ELSE FAT_MAGIC_BE>>,
           <<4, IntBytes(nFatArch, 4, isLE)>> >>
        \o Flatten([i \in 1..Len(archs) |-> FatArchWrites(8 + (i - 1) * 20, archs[i], isLE)])
        \o Flatten([i \in 1..Len(archs) |-> FatSliceWrites(archs[i], isLE)]))

FatInput(b) ==
    \E len \in {28, 40, 448, 600}, isLE \in BOOLEAN, extra \in {0, 1},
       archs \in SeqsUpTo(FatArchChoices, MaxFatArch) :
        b = MkFat(len, isLE, Len(archs) + extra, archs)

\* --- ELF ---

\* The writes of one section header: sh_name, sh_type, sh_addr, sh_offset,
\* sh_size.
ElfSectionWrites(at, is64, isLE, sec) ==
    LET w == IF is64 THEN 8 ELSE 4 IN
    << <<at, IntBytes(sec.nameIdx, 4, isLE)>>,
       <<at + 4, IntBytes(sec.type, 4, isLE)>>,
       <<at + (IF is64 THEN 16 ELSE 12), IntBytes(sec.addr, w, isLE)>>,
       <<at + (IF is64 THEN 24 ELSE 16), IntBytes(sec.offset, w, isLE)>>,
       <<at + (IF is64 THEN 32 ELSE 20), IntBytes(sec.size, w, isLE)>> >>

\* An ELF file of length len: identification, e_phoff/e_phentsize/e_phnum,
\* e_shoff/e_shentsize/e_shnum/e_shstrndx, the section headers at e_shoff,
\* and a string table "\0.t\0.d\0" at offset 240.
MkELF(len, is64, isLE, ph, shoff, shentsize, shstrndx, secs) ==
    LET w    == IF is64 THEN 8 ELSE 4
        tail == 24 + 3 * w + 4 + 2
    IN PutAll(Blank(len),
         << <<0, ELF_MAGIC>>,
            <<4, <<IF is64 THEN 2 ELSE 1, IF isLE THEN 1 ELSE 2>>>>,
            <<24 + w, IntBytes(ph.off, w, isLE)>>,
            <<24 + 2 * w, IntBytes(shoff, w, isLE)>>,
            <<tail, IntBytes(ph.entsize, 2, isLE)>>,
            <<tail + 2, IntBytes(ph.num, 2, isLE)>>,
            <<tail + 4, IntBytes(shentsize, 2, isLE)>>,
            <<tail + 6, IntBytes(Len(secs), 2, isLE)>>,
            <<tail + 8, IntBytes(shstrndx, 2, isLE)>>,
            <<240, <<0, 46, 116, 0, 46, 100, 0>>>> >>
         \o Flatten([i \in 1..Len(secs) |->
                ElfSectionWrites(shoff + (i - 1) * shentsize, is64, isLE, secs[i])]))

ElfSectionChoices ==
    { [nameIdx |-> 1, type |-> 1, addr |-> 4096, offset |-> 64, size |-> 16],
      [nameIdx |-> 4, type |-> SHT_NOBITS, addr |-> 8192, offset |-> 64, size |-> 32],
      [nameIdx |-> 0, type |-> SHT_STRTAB, addr |-> 0, offset |-> 240, size |-> 7],
      [nameIdx |-> 4, type |-> 1, addr |-> 12288, offset |-> 250, size |-> 100] }

ElfPhChoices(is64) ==
    { [off |-> 0, num |-> 0, entsize |-> 0],
      [off |-> 64, num |-> 1, entsize |-> IF is64 THEN 56 ELSE 32],
      [off |-> 296, num |-> 2, entsize |-> 0] }

ElfShChoices ==
    { [off |-> 0, entsize |-> 0, strndx |-> 0, secs |-> <<>>] }
    \cup { [off |-> 120, entsize |-> e, strndx |-> x, secs |-> ss] :
             e \in {40, 64}, x \in {0, 1},
             ss \in SeqsUpTo(ElfSectionChoices, MaxSections) \ {<<>>} }
    \cup { [off |-> 290, entsize |-> 0, strndx |-> 0, secs |-> <<sec>>] :
             sec \in ElfSectionChoices }

ElfInput(b) ==
    \E len \in {16, 40, 52, 64, 120, 300},
       c \in {<<FALSE, TRUE>>, <<FALSE, FALSE>>, <<TRUE, TRUE>>},
       ph \in ElfPhChoices(FALSE) \cup ElfPhChoices(TRUE), sh \in ElfShChoices :
        b = MkELF(len, c[1], c[2], ph, sh.off, sh.entsize, sh.strndx, sh.secs)

\* b is one of the files the parsers are run on.
ParseInput(b) == PEInput(b) \/ RawInput(b) \/ MachOInput(b) \/ FatInput(b) \/ ElfInput(b)

----------------------------------------------------------------------------
(* handleFile (App.tsx), from the point where file.arrayBuffer() has       *)
(* resolved: detect the format, parse, and report.                         *)

NoOutcome == [kind |-> "none"]

\* parsePNG not called.
NoWalk == [pc |-> "idle", offset |-> 0, regions |-> <<>>]

\* No call of parseBoxes is in progress.
NoBoxWalk == [pc |-> "idle", stack |-> <<>>, regions |-> <<>>]

\* appState.activeSessionId = null.
NoSession == 0

\* No tab is open, nothing is being read and no handleFile call is to come.
NoTabs ==
    /\ sessions = <<>>
    /\ activeSessionId = NoSession
    /\ reading = <<>>
    /\ timers = {}
    /\ nextId = 1
    /\ loadsLeft = 0

\* The error message shown for an invalid or failed parse (null is <<>>).
HandleFileError(outcome) ==
    CASE outcome.kind = "threw" -> <<"Failed to parse file: ", outcome.error>>
      [] outcome.kind = "returned" /\ ~outcome.file.isValid ->
             IF outcome.file.error # "" THEN <<outcome.file.error>>
             ELSE <<"Unrecognized or Invalid Binary File">>
      [] OTHER -> <<>>

HandleFile ==
    /\ parsed = NoOutcome
    /\ parsed' = DetectAndParse(buf)
    /\ errorMsg' = HandleFileError(parsed')
    /\ UNCHANGED <<buf, query, mode, useRegex, searchOut, pngWalk, appState, imageWalks, tabState>>

InitParse ==
    /\ ParseInput(buf)
    /\ parsed = NoOutcome
    /\ errorMsg = <<>>
    /\ query = <<>>
    /\ mode = "ascii"
    /\ useRegex = FALSE
    /\ searchOut = NoOutcome
    /\ pngWalk = NoWalk
    /\ isSearchOpen = FALSE
    /\ isSearching = FALSE
    /\ clipboard = <<>>
    /\ jpegWalk = NoWalk
    /\ heicWalk = NoBoxWalk
    /\ NoTabs

NextParse == HandleFile

SpecParse == InitParse /\ [][NextParse]_vars

----------------------------------------------------------------------------
(* offsetToRva (services/peParser.ts) and searchPE                         *)
(* (services/searchService.ts).  A query is the sequence of its UTF-16     *)
(* code units.  searchPE either returns its result list,                   *)
(*     [kind |-> "returned", results |-> <<SearchResult, ...>>],           *)
(* or throws, [kind |-> "threw", error |-> message].  An optional number   *)
(* (rva) is <<>> when undefined and <<n>> otherwise.                       *)

SEARCH_LIMIT == 2000
REGEX_MAX_BYTES == 52428800     \* 50 * 1024 * 1024

\* for (const sec of sections) ... from section k on, then the fallback.
RECURSIVE offsetToRvaFrom(_, _, _)
offsetToRvaFrom(offset, secs, k) ==
    IF k > Len(secs)
    THEN IF Len(secs) > 0 /\ offset < secs[1].pointerToRawData THEN <<offset>> ELSE <<>>
    ELSE IF /\ offset >= secs[k].pointerToRawData
            /\ offset < secs[k].pointerToRawData + secs[k].sizeOfRawData
            /\ offset - secs[k].pointerToRawData < secs[k].virtualSize
    THEN <<secs[k].virtualAddress + (offset - secs[k].pointerToRawData)>>
    ELSE offsetToRvaFrom(offset, secs, k + 1)

\* The sections scanned from the last to the first.
offsetToRva_LastFirst(offset, secs) ==
    offsetToRvaFrom(offset, [i \in 1..Len(secs) |-> secs[Len(secs) + 1 - i]], 1)

offsetToRva(offset, secs) == offsetToRvaFrom(offset, secs, 1)

SearchResult(offset, size, rva, matchVal) ==
    [offset |-> offset, size |-> size, rva |-> rva, matchVal |-> matchVal]

Results(results) == [kind |-> "returned", results |-> results]

SearchThrew(message) == [kind |-> "threw", error |-> message]

\* --- the literal sliding scan ---

\* The inner loop: buffer[i + j] === searchBytes[j] for every j.
MatchesAt(b, searchBytes, i) ==
    \A j \in 1..Len(searchBytes) : ByteAt(b, i + j - 1) = searchBytes[j]

\* One iteration of the outer loop at index i; the loop has been left once
\* results.length >= 2000.
ScanStep(b, secs, searchBytes, matchVal, i, results) ==
    IF Len(results) >= SEARCH_LIMIT THEN results
    ELSE IF MatchesAt(b, searchBytes, i)
    THEN Append(results, SearchResult(i, Len(searchBytes), offsetToRva(i, secs), matchVal))
    ELSE results

\* The iterations i = lo .. hi of the outer loop, in order.
RECURSIVE ScanRange(_, _, _, _, _, _, _)
ScanRange(b, secs, searchBytes, matchVal, lo, hi, results) ==
    IF lo > hi \/ Len(results) >= SEARCH_LIMIT THEN results
    ELSE IF lo = hi THEN ScanStep(b, secs, searchBytes, matchVal, lo, results)
    ELSE ScanRange(b, secs, searchBytes, matchVal, (lo + hi) \div 2 + 1, hi,
             ScanRange(b, secs, searchBytes, matchVal, lo, (lo + hi) \div 2, results))

\* for (let i = 0; i <= len - sLen; i++) { ... }
literalScan_ShortLoop(b, secs, searchBytes, matchVal) ==
    ScanRange(b, secs, searchBytes, matchVal, 0, byteLength(b) - Len(searchBytes) - 1, <<>>)

literalScan(b, secs, searchBytes, matchVal) ==
    ScanRange(b, secs, searchBytes, matchVal, 0, byteLength(b) - Len(searchBytes), <<>>)

\* --- hex mode ---

\* The characters \s matches.
IsWhitespace(c) ==
    \/ c \in {9, 10, 11, 12, 13, 32, 160, 5760, 8232, 8233, 8239, 8287, 12288, 65279}
    \/ (c >= 8192 /\ c <= 8202)

\* replace(/0x/gi, ''): the occurrences found in one left-to-right pass.
RECURSIVE Remove0x(_)
Remove0x(s) ==
    IF Len(s) < 2 THEN s
    ELSE IF s[1] = 48 /\ s[2] \in {120, 88} THEN Remove0x(SubSeq(s, 3, Len(s)))
    ELSE <<s[1]>> \o Remove0x(Tail(s))

\* The whitespace left in: query.replace(/0x/gi, '') alone.
cleanQuery_KeepWhitespace(q) == Remove0x(q)

\* query.replace(/\s+/g, '').replace(/0x/gi, '')
cleanQuery(q) == Remove0x(SelectSeq(q, LAMBDA c : ~IsWhitespace(c)))

IsHexDigit(c) == (c >= 48 /\ c <= 57) \/ (c >= 65 /\ c <= 70) \/ (c >= 97 /\ c <= 102)

\* cleanQuery.length % 2 === 0 && /^[0-9A-Fa-f]+$/.test(cleanQuery)
IsHexString(s) ==
    Len(s) % 2 = 0 /\ Len(s) >= 1 /\ \A k \in 1..Len(s) : IsHexDigit(s[k])

\* The value of one hex digit.
HexDigit(c) == IF c <= 57 THEN c - 48 ELSE IF c <= 70 THEN c - 55 ELSE c - 87

\* parseInt(cleanQuery.substr(i, 2), 16) for i = 0, 2, ...
hexBytes(s) ==
    <<>> \o [k \in 1..(Len(s) \div 2) |-> 16 * HexDigit(s[2 * k - 1]) + HexDigit(s[2 * k])]

\* The hex branch on the cleaned query.
hexScan(b, secs, clean) ==
    IF ~IsHexString(clean) THEN SearchThrew("Invalid Hex String")
    ELSE Results(literalScan(b, secs, hexBytes(clean), clean))

hexSearch(b, secs, q) == hexScan(b, secs, cleanQuery(q))

\* --- ascii mode, regular expression ---

\* new TextDecoder('latin1') decodes as windows-1252: one character per
\* byte, the bytes 0x80 .. 0x9F mapped through the table below.
Windows1252 ==
    << 8364, 129, 8218, 402, 8222, 8230, 8224, 8225, 710, 8240, 352, 8249, 338, 141, 381, 143,
       144, 8216, 8217, 8220, 8221, 8226, 8211, 8212, 732, 8482, 353, 8250, 339, 157, 382, 376 >>

\* str.charCodeAt(i) of the decoded buffer.
CharAt(b, i) ==
    IF ByteAt(b, i) >= 128 /\ ByteAt(b, i) <= 159 THEN Windows1252[ByteAt(b, i) - 127]
    ELSE ByteAt(b, i)

\* str.substring(from, to) of the decoded buffer.
Substring(b, from, to) == <<>> \o [k \in 1..(to - from) |-> CharAt(b, from + k - 1)]

\* new RegExp(query, 'g') for patterns made of literal characters, '.' and
\* the postfix '*': a '*' with nothing to repeat is a SyntaxError.
RegexCompiles(q) ==
    \A k \in 1..Len(q) : q[k] = 42 => (k > 1 /\ q[k - 1] # 42)

\* The atoms of the pattern: a character (46 is '.') and whether it is starred.
RECURSIVE RegexAtoms(_)
RegexAtoms(q) ==
    IF q = <<>> THEN <<>>
    ELSE IF Len(q) >= 2 /\ q[2] = 42
    THEN <<[ch |-> q[1], star |-> TRUE]>> \o RegexAtoms(SubSeq(q, 3, Len(q)))
    ELSE <<[ch |-> q[1], star |-> FALSE]>> \o RegexAtoms(Tail(q))

\* '.' matches any character but a line terminator.
AtomMatches(atom, c) ==
    IF atom.ch = 46 THEN c \notin {10, 13, 8232, 8233} ELSE c = atom.ch

\* The first index in lo .. hi-1 whose character the atom does not match
\* (hi when it matches them all).
RECURSIVE RunEnd(_, _, _, _)
RECURSIVE RunEndFrom(_, _, _, _, _)
RunEnd(b, atom, lo, hi) ==
    IF lo >= hi THEN hi
    ELSE IF hi = lo + 1 THEN (IF AtomMatches(atom, CharAt(b, lo)) THEN hi ELSE lo)
    ELSE RunEndFrom(b, atom, (lo + hi) \div 2, hi, RunEnd(b, atom, lo, (lo + hi) \div 2))

\* RunEnd over lo .. hi-1 given its value left over lo .. mid-1.
RunEndFrom(b, atom, mid, hi, left) ==
    IF left < mid THEN left ELSE RunEnd(b, atom, mid, hi)

\* The backtracking matcher: the end of the match of atoms k.. at position
\* p, or -1.  A starred atom takes the longest run first and gives
\* characters back one at a time (LongestRest).
RECURSIVE MatchAtoms(_, _, _, _)
RECURSIVE LongestRest(_, _, _, _, _)
RECURSIVE LongestRestBelow(_, _, _, _, _, _)
MatchAtoms(b, atoms, k, p) ==
    IF k > Len(atoms) THEN p
    ELSE IF atoms[k].star
    THEN LongestRest(b, atoms, k + 1, p, RunEnd(b, atoms[k], p, byteLength(b)))
    ELSE IF p < byteLength(b) /\ AtomMatches(atoms[k], CharAt(b, p))
    THEN MatchAtoms(b, atoms, k + 1, p + 1)
    ELSE -1

\* MatchAtoms(b, atoms, k, e) for the greatest e in lo .. hi where it
\* succeeds, or -1.
LongestRest(b, atoms, k, lo, hi) ==
    IF lo > hi THEN -1
    ELSE IF lo = hi THEN MatchAtoms(b, atoms, k, lo)
    ELSE LongestRestBelow(b, atoms, k, lo, (lo + hi) \div 2,
                          LongestRest(b, atoms, k, (lo + hi) \div 2 + 1, hi))

\* LongestRest over lo .. hi given its value upper over mid+1 .. hi.
LongestRestBelow(b, atoms, k, lo, mid, upper) ==
    IF upper # -1 THEN upper ELSE LongestRest(b, atoms, k, lo, mid)

NoMatch == [index |-> -1, end |-> -1]

\* The match at start position s, if any.
MatchFrom(s, end) == IF end = -1 THEN NoMatch ELSE [index |-> s, end |-> end]

\* The match regex.exec finds scanning the start positions lo .. hi.
RECURSIVE FirstMatch(_, _, _, _)
RECURSIVE FirstMatchAbove(_, _, _, _, _)
FirstMatch(b, atoms, lo, hi) ==
    IF lo > hi THEN NoMatch
    ELSE IF lo = hi THEN MatchFrom(lo, MatchAtoms(b, atoms, 1, lo))
    ELSE FirstMatchAbove(b, atoms, (lo + hi) \div 2, hi,
                         FirstMatch(b, atoms, lo, (lo + hi) \div 2))

\* FirstMatch over lo .. hi given its value lower over lo .. mid.
FirstMatchAbove(b, atoms, mid, hi, lower) ==
    IF lower # NoMatch THEN lower ELSE FirstMatch(b, atoms, mid + 1, hi)

\* The body of the while loop for the value regex.exec(str) returned; exec
\* leaves regex.lastIndex at the end of the match.
ExecPush(b, secs, st, match) ==
    IF match = NoMatch THEN [st EXCEPT !.done = TRUE]
    ELSE [done |-> Len(st.results) + 1 >= SEARCH_LIMIT,
          lastIndex |-> match.end,
          results |-> Append(st.results,
                          SearchResult(match.index, match.end - match.index,
                                       offsetToRva(match.index, secs),
                                       Substring(b, match.index, match.end)))]

\* One evaluation of the loop condition and body on the loop state
\* st = [done, lastIndex, results].
ExecStep(b, secs, atoms, st) ==
    IF st.done THEN st
    ELSE ExecPush(b, secs, st, FirstMatch(b, atoms, st.lastIndex, byteLength(b)))

\* n evaluations of the loop.
RECURSIVE ExecLoop(_, _, _, _, _)
ExecLoop(b, secs, atoms, n, st) ==
    IF n = 0 \/ st.done THEN st
    ELSE IF n = 1 THEN ExecStep(b, secs, atoms, st)
    ELSE ExecLoop(b, secs, atoms, n - n \div 2, ExecLoop(b, secs, atoms, n \div 2, st))

\* The oversized buffer answered with an empty list instead of an error.
asciiRegexSearch_Silent(b, secs, q) ==
    IF byteLength(b) > REGEX_MAX_BYTES THEN Results(<<>>)
    ELSE IF ~RegexCompiles(q) THEN SearchThrew("SyntaxError")
    ELSE Results(ExecLoop(b, secs, RegexAtoms(q), SEARCH_LIMIT,
                          [done |-> FALSE, lastIndex |-> 0, results |-> <<>>]).results)

asciiRegexSearch(b, secs, q) ==
    IF byteLength(b) > REGEX_MAX_BYTES
    THEN SearchThrew("File too large for Regex search (max 50MB)")
    ELSE IF ~RegexCompiles(q) THEN SearchThrew("SyntaxError")
    ELSE Results(ExecLoop(b, secs, RegexAtoms(q), SEARCH_LIMIT,
                          [done |-> FALSE, lastIndex |-> 0, results |-> <<>>]).results)

\* --- unicode mode ---

\* code & 0xFF, (code >> 8) & 0xFF for every character of the query.
utf16leBytes(q) ==
    <<>> \o [k \in 1..(2 * Len(q)) |->
                IF k % 2 = 1 THEN q[(k + 1) \div 2] % 256
                ELSE (q[k \div 2] \div 256) % 256]

\* The regex flag ignored: the literal scan is run all the same.
unicodeSearch_Fallback(b, secs, q, r) ==
    Results(literalScan(b, secs, utf16leBytes(q), q))

unicodeSearch(b, secs, q, r) ==
    IF r THEN SearchThrew("Regex not supported for Unicode (Raw) search in this version.")
    ELSE Results(literalScan(b, secs, utf16leBytes(q), q))

\* --- searchPE ---

searchPE(file, q, m, r) ==
    IF q = <<>> THEN Results(<<>>)
    ELSE CASE m = "hex" -> hexSearch(file.data, file.sectionsMetadata, q)
           [] m = "ascii" /\ r -> asciiRegexSearch(file.data, file.sectionsMetadata, q)
           [] m = "ascii" /\ ~r ->
                  Results(literalScan(file.data, file.sectionsMetadata, q, q))
           [] m = "unicode" -> unicodeSearch(file.data, file.sectionsMetadata, q, r)
           [] OTHER -> Results(<<>>)

----------------------------------------------------------------------------
(* Searching a loaded file *)

MaxQueryLen == 2        \* length of the queries built from QueryChars
MaxScanLen == 4096      \* longest buffer the scans are run on

\* '0', 'x', 'D', 'Z', '*'
QueryChars == {48, 120, 68, 90, 42}

\* "4D5A", "4d5a", "0x4D 0x5A", "0X4D", "00xx41", "\t4D\n5A", "MZ", ".",
\* ".*", "M.", U+5A4D, " "
SampleQueries ==
    { <<32>>, <<52, 68, 53, 65>>, <<52, 100, 53, 97>>,
      <<48, 120, 52, 68, 32, 48, 120, 53, 65>>, <<48, 88, 52, 68>>,
      <<48, 48, 120, 120, 52, 49>>, <<9, 52, 68, 10, 53, 65>>,
      <<77, 90>>, <<46>>, <<46, 42>>, <<77, 46>>, <<23117>> }

Queries == SeqsUpTo(QueryChars, MaxQueryLen) \cup SampleQueries

SearchModes == {"hex", "ascii", "unicode"}

\* PE images of 256 bytes with two sections whose raw ranges overlap and
\* are listed out of file order: in the first the second section is longer
\* in the file than in memory, in the second every shared offset maps
\* through both sections.
TwoSectionInput(b) ==
    \/ b = MkPE(256, 64, PE_SIGNATURE, 0, 0, 0,
                << [name |-> <<46, 97>>, vsize |-> 16, va |-> 8192,
                    raw |-> 32, ptr |-> 224],
                   [name |-> <<46, 98>>, vsize |-> 8, va |-> 4096,
                    raw |-> 48, ptr |-> 192] >>)
    \/ b = MkPE(256, 64, PE_SIGNATURE, 0, 0, 0,
                << [name |-> <<46, 97>>, vsize |-> 32, va |-> 8192,
                    raw |-> 32, ptr |-> 208],
                   [name |-> <<46, 98>>, vsize |-> 64, va |-> 4096,
                    raw |-> 64, ptr |-> 192] >>)

\* The files searched: a PE image with one section, the two-section images,
\* a Mach-O header followed by the text "ZZ4D 0Z\nD", a PE image of more
\* than SEARCH_LIMIT bytes, and a PE image of more than REGEX_MAX_BYTES bytes.
SearchInput(b) ==
    \/ TwoSectionInput(b)
    \/ b = MkPE(200, 64, PE_SIGNATURE, 0, 0, 0,
                << [name |-> <<46, 116>>, vsize |-> 16, va |-> 4096,
                    raw |-> 32, ptr |-> 128] >>)
    \/ b = Put(PutAll(Blank(40), MachOWrites(0, FALSE, FALSE, 0, 0, <<>>)),
               28, <<90, 90, 52, 68, 32, 48, 90, 10, 68>>)
    \/ b = MkPE(SEARCH_LIMIT + 100, 64, PE_SIGNATURE, 0, 0, 0, <<>>)
    \/ b = MkPE(REGEX_MAX_BYTES + 1, 64, PE_SIGNATURE, 0, 0, 0, <<>>)

\* The searches the model runs: every search on a buffer of at most
\* MaxScanLen bytes; on a longer one those that are refused before any scan.
Scannable(b, m, r) ==
    byteLength(b) <= MaxScanLen \/ (r /\ m \in {"ascii", "unicode"})

\* searchPE(file, query, mode, useRegex) on the loaded file.
Search ==
    /\ parsed.kind = "returned"
    /\ parsed.file.isValid
    /\ searchOut = NoOutcome
    /\ \E q \in Queries, m \in SearchModes, r \in BOOLEAN :
           /\ Scannable(parsed.file.data, m, r)
           /\ query' = q
           /\ mode' = m
           /\ useRegex' = r
           /\ searchOut' = searchPE(parsed.file, q, m, r)
    /\ UNCHANGED <<buf, parsed, errorMsg, pngWalk, appState, imageWalks, tabState>>

InitSearch ==
    /\ SearchInput(buf)
    /\ parsed = NoOutcome
    /\ errorMsg = <<>>
    /\ query = <<>>
    /\ mode = "ascii"
    /\ useRegex = FALSE
    /\ searchOut = NoOutcome
    /\ pngWalk = NoWalk
    /\ isSearchOpen = FALSE
    /\ isSearching = FALSE
    /\ clipboard = <<>>
    /\ jpegWalk = NoWalk
    /\ heicWalk = NoBoxWalk
    /\ NoTabs

NextSearch == HandleFile \/ Search

SpecSearch == InitSearch /\ [][NextSearch]_vars

----------------------------------------------------------------------------
(* The window: the search dialog and the copy command *)

\* The queries typed into the dialog: "MZ", "4D 5A", ".*".
DialogQueries == { <<77, 90>>, <<52, 68, 32, 53, 65>>, <<46, 42>> }

\* Ctrl+F and the toolbar button flip isSearchOpen; Escape and the dialog's
\* close button set it to false, the same step from an open dialog.
ToggleSearch ==
    /\ parsed.kind = "returned"
    /\ parsed.file.isValid
    /\ isSearchOpen' = ~isSearchOpen
    /\ UNCHANGED <<buf, parsed, errorMsg, query, mode, useRegex, searchOut,
                   pngWalk, isSearching, clipboard, imageWalks, tabState>>

\* handleSearch up to its setTimeout: an empty query returns at once (no
\* step); otherwise isSearching is set and the callback is armed with the
\* dialog's query, mode and useRegex.  The Find All button is disabled
\* while isSearching.
HandleSearch ==
    /\ parsed.kind = "returned"
    /\ parsed.file.isValid
    /\ isSearchOpen
    /\ ~isSearching
    /\ \E q \in DialogQueries, m \in SearchModes, r \in BOOLEAN :
           /\ Scannable(parsed.file.data, m, r)
           /\ query' = q
           /\ mode' = m
           /\ useRegex' = r
    /\ isSearching' = TRUE
    /\ UNCHANGED <<buf, parsed, errorMsg, searchOut, pngWalk, isSearchOpen,
                   clipboard, imageWalks, tabState>>

\* The callback of handleSearch's timer: searchPE runs from its first
\* statement to its return in this one task, whether or not the dialog is
\* still open; then isSearching is reset.
SearchTimeout ==
    /\ isSearching
    /\ searchOut' = searchPE(parsed.file, query, mode, useRegex)
    /\ isSearching' = FALSE
    /\ UNCHANGED <<buf, parsed, errorMsg, query, mode, useRegex, pngWalk,
                   isSearchOpen, clipboard, imageWalks, tabState>>

\* The longest selection the model copies.
MaxSelection == 24

\* buffer.slice(start, end): a new array holding the bytes [start, end).
slice(b, start, end) == [k \in 1..(end - start) |-> ByteAt(b, start + k - 1)]

\* The selected bytes handed out as a view of the file's own buffer, which
\* the caller then clears.
getSelectedBytes_InPlace(file, selection) ==
    IF selection.offset + selection.size > file.size
    THEN [kind |-> "null", data |-> file.data]
    ELSE [kind |-> "bytes",
          bytes |-> slice(file.data, selection.offset,
                          selection.offset + selection.size),
          data |-> Blank(file.data.len)]

\* getSelectedBytes(): null when the selection runs past the file size,
\* otherwise a copy of the selected bytes; data is the file's buffer after
\* the call.
getSelectedBytes(file, selection) ==
    IF selection.offset + selection.size > file.size
    THEN [kind |-> "null", data |-> file.data]
    ELSE [kind |-> "bytes",
          bytes |-> slice(file.data, selection.offset,
                          selection.offset + selection.size),
          data |-> file.data]

\* b.toString(16).padStart(2, '0').toUpperCase()
HexPair(byte) ==
    LET digit(d) == IF d < 10 THEN 48 + d ELSE 55 + d
    IN <<digit(byte \div 16), digit(byte % 16)>>

\* arr.map(...).join(' ') of copy mode 'hex', from index i on.
RECURSIVE CopyHex(_, _)
CopyHex(arr, i) ==
    IF i > Len(arr) THEN <<>>
    ELSE (IF i > 1 THEN <<32>> ELSE <<>>) \o HexPair(arr[i]) \o CopyHex(arr, i + 1)

\* The selections made: a click on a top-level region or on one of its
\* children, or a drag over the first or the last byte in the hex view.
Selections(file) ==
    LET top == {file.regions[i] : i \in 1..Len(file.regions)}
        kids == UNION {{r.children[i] : i \in 1..Len(r.children)} : r \in top}
    IN {[offset |-> r.offset, size |-> r.size] :
            r \in {x \in top \cup kids : x.size >= 0 /\ x.size <= MaxSelection}}
       \cup {[offset |-> 0, size |-> 1], [offset |-> file.size - 1, size |-> 1]}

\* handleCopy in the default copy mode 'hex' on the current selection.
HandleCopy ==
    /\ parsed.kind = "returned"
    /\ parsed.file.isValid
    /\ \E selection \in Selections(parsed.file) :
           LET got == getSelectedBytes(parsed.file, selection)
           IN /\ parsed' = [parsed EXCEPT !.file.data = got.data]
              /\ clipboard' = IF got.kind = "null" THEN clipboard
                              ELSE CopyHex(got.bytes, 1)
    /\ UNCHANGED <<buf, errorMsg, query, mode, useRegex, searchOut, pngWalk,
                   isSearchOpen, isSearching, imageWalks, tabState>>

\* The files opened in the window: the PE image with one section, the
\* Mach-O header followed by text, and a Mach-O image of 48 bytes whose one
\* load command is an LC_MAIN of 24 bytes at offset 28.
AppInput(b) ==
    \/ b = MkPE(200, 64, PE_SIGNATURE, 0, 0, 0,
                << [name |-> <<46, 116>>, vsize |-> 16, va |-> 4096,
                    raw |-> 32, ptr |-> 128] >>)
    \/ b = Put(PutAll(Blank(40), MachOWrites(0, FALSE, FALSE, 0, 0, <<>>)),
               28, <<90, 90, 52, 68, 32, 48, 90, 10, 68>>)
    \/ b = PutAll(Blank(48), MachOWrites(0, FALSE, FALSE, 1, 24,
                                         << [kind |-> "main", cmdsize |-> 24] >>))

InitApp ==
    /\ AppInput(buf)
    /\ parsed = NoOutcome
    /\ errorMsg = <<>>
    /\ query = <<>>
    /\ mode = "ascii"
    /\ useRegex = FALSE
    /\ searchOut = NoOutcome
    /\ pngWalk = NoWalk
    /\ isSearchOpen = FALSE
    /\ isSearching = FALSE
    /\ clipboard = <<>>
    /\ jpegWalk = NoWalk
    /\ heicWalk = NoBoxWalk
    /\ NoTabs

NextApp == HandleFile \/ ToggleSearch \/ HandleSearch \/ SearchTimeout \/ HandleCopy

SpecApp == InitApp /\ [][NextApp]_vars

----------------------------------------------------------------------------
(* parsePNG (unnamed/part_003).  The chunk pngWalk is modelled one loop       *)
(* iteration per step: pngWalk.pc is "idle" before the call, "loop" at the    *)
(* loop test, "return" once the loop is left and "done" after the return.  *)

PNG_SIGNATURE_SIZE == 8
PNG_CHUNK_OVERHEAD == 12    \* Len(4) + Type(4) + CRC(4)
IHDR_MIN_LENGTH == 13

IHDR == <<73, 72, 68, 82>>
IDAT == <<73, 68, 65, 84>>
IEND == <<73, 69, 78, 68>>

\* The children of a chunk region: Length, Type, the IHDR fields, Data, CRC.
PngChunkChildren(offset, length, type) ==
    << Field("Length", offset, 4), Field("Type", offset + 4, 4) >>
    \o (IF type = IHDR /\ length >= IHDR_MIN_LENGTH
        THEN << Field("Width", offset + 8, 4), Field("Height", offset + 12, 4),
                Field("BitDepth", offset + 16, 1), Field("ColorType", offset + 17, 1) >>
        ELSE <<>>)
    \o (IF length > 0
        THEN << Region("Data", <<>>, offset + 8, length, "Image Data", <<>>) >>
        ELSE <<>>)
    \o << Field("CRC", offset + 8 + length, 4) >>

PngChunkRegion(offset, length, type) ==
    Region("Chunk: ", type, offset, PNG_CHUNK_OVERHEAD + length, "PNG Chunk",
           PngChunkChildren(offset, length, type))

\* The loop never left after an IEND chunk.
PngChunk_NoIendStop(b, w, length, type) ==
    IF w.offset + PNG_CHUNK_OVERHEAD + length > byteLength(b)
    THEN [w EXCEPT !.pc = "return"]
    ELSE [pc |-> "loop",
          offset |-> w.offset + PNG_CHUNK_OVERHEAD + length,
          regions |-> Append(w.regions, PngChunkRegion(w.offset, length, type))]

\* The loop body from the totalSize test on, for the length and type read.
PngChunk(b, w, length, type) ==
    IF w.offset + PNG_CHUNK_OVERHEAD + length > byteLength(b)
    THEN [w EXCEPT !.pc = "return"]
    ELSE [pc |-> IF type = IEND THEN "return" ELSE "loop",
          offset |-> w.offset + PNG_CHUNK_OVERHEAD + length,
          regions |-> Append(w.regions, PngChunkRegion(w.offset, length, type))]

\* The loop test and one iteration of the body.
PngIteration(b, w) ==
    IF ~(w.offset < byteLength(b)) \/ w.offset + 8 > byteLength(b)
    THEN [w EXCEPT !.pc = "return"]
    ELSE PngChunk(b, w, getUint32(b, w.offset, FALSE), readString(b, w.offset + 4, 4))

\* parsePNG is entered: the signature region is pushed, offset = 8.
PngStart ==
    /\ pngWalk.pc = "idle"
    /\ jpegWalk.pc = "idle"
    /\ heicWalk.pc = "idle"
    /\ pngWalk' = [pc |-> "loop", offset |-> PNG_SIGNATURE_SIZE,
                regions |-> << Region("PNG Signature", <<>>, 0, PNG_SIGNATURE_SIZE,
                                      "Image Header", <<>>) >>]
    /\ UNCHANGED <<buf, parsed, errorMsg, query, mode, useRegex, searchOut, appState, imageWalks, tabState>>

PngLoop ==
    /\ pngWalk.pc = "loop"
    /\ pngWalk' = PngIteration(buf, pngWalk)
    /\ UNCHANGED <<buf, parsed, errorMsg, query, mode, useRegex, searchOut, appState, imageWalks, tabState>>

PngReturn ==
    /\ pngWalk.pc = "return"
    /\ parsed' = Returned(ParsedFile(buf, pngWalk.regions, <<>>, TRUE, "", "PNG"))
    /\ pngWalk' = [pngWalk EXCEPT !.pc = "done"]
    /\ UNCHANGED <<buf, errorMsg, query, mode, useRegex, searchOut, appState, imageWalks, tabState>>

MaxChunks == 3          \* chunks written into a PNG input

\* A chunk written into an input: its type, the length it declares and the
\* number of data bytes that follow it in the file.
PngChunkChoices ==
    { [type |-> IHDR, declared |-> 13, actual |-> 13],
      [type |-> IHDR, declared |-> 4, actual |-> 4],
      [type |-> IDAT, declared |-> 0, actual |-> 0],
      [type |-> IDAT, declared |-> 5, actual |-> 5],
      [type |-> IDAT, declared |-> 30, actual |-> 2],
      [type |-> IDAT, declared |-> 70000, actual |-> 1],
      [type |-> <<116, 69>>, declared |-> 1, actual |-> 1],
      [type |-> IEND, declared |-> 0, actual |-> 0],
      [type |-> IEND, declared |-> 2, actual |-> 2] }

\* The writes of the chunks from offset at on.
RECURSIVE PngChunkWrites(_, _)
PngChunkWrites(at, chunks) ==
    IF chunks = <<>> THEN <<>>
    ELSE << <<at, IntBytes(chunks[1].declared, 4, FALSE)>>, <<at + 4, chunks[1].type>> >>
         \o PngChunkWrites(at + PNG_CHUNK_OVERHEAD + chunks[1].actual, Tail(chunks))

RECURSIVE PngChunksSize(_)
PngChunksSize(chunks) ==
    IF chunks = <<>> THEN 0
    ELSE PNG_CHUNK_OVERHEAD + chunks[1].actual + PngChunksSize(Tail(chunks))

\* The signature and the chunks, the file cut short or extended by
\* zero bytes.
PngInput(b) ==
    \/ \E chunks \in SeqsUpTo(PngChunkChoices, MaxChunks), extra \in {-5, 0, 7, 30} :
           /\ PNG_SIGNATURE_SIZE + PngChunksSize(chunks) + extra >= 0
           /\ b = PutAll(Blank(PNG_SIGNATURE_SIZE + PngChunksSize(chunks) + extra),
                         << <<0, <<137, 80, 78, 71, 13, 10, 26, 10>> >> >>
                         \o PngChunkWrites(PNG_SIGNATURE_SIZE, chunks))
    \/ \E len \in {0, 4, 9, 15, 16, 19, 20} : b = Blank(len)

InitPNG ==
    /\ PngInput(buf)
    /\ parsed = NoOutcome
    /\ errorMsg = <<>>
    /\ query = <<>>
    /\ mode = "ascii"
    /\ useRegex = FALSE
    /\ searchOut = NoOutcome
    /\ pngWalk = NoWalk
    /\ isSearchOpen = FALSE
    /\ isSearching = FALSE
    /\ clipboard = <<>>
    /\ jpegWalk = NoWalk
    /\ heicWalk = NoBoxWalk
    /\ NoTabs

NextPNG == PngStart \/ PngLoop \/ PngReturn

\* The loop is run to its end: JavaScript runs parsePNG to completion.
SpecPNG == InitPNG /\ [][NextPNG]_vars /\ WF_vars(NextPNG)

----------------------------------------------------------------------------
(* parseJPEG (services/imageParser) *)

SOF0 == 192     \* 0xC0
SOS == 218      \* 0xDA
EOI == 217      \* 0xD9

\* Standalone markers (no length): RST0..RST7, SOI, EOI and TEM.
isStandalone(markerByte) ==
    (markerByte >= 208 /\ markerByte <= 217) \/ markerByte = 1

\* The region of a marker with a length: Marker, Length and Data, and the
\* SOF0 fields when the length is above 5.
JpegSegmentRegion(offset, markerByte, length) ==
    Region("Segment", <<markerByte>>, offset, 2 + length, "JPEG Segment",
           << Field("Marker", offset, 2), Field("Length", offset + 2, 2),
              Region("Data", <<>>, offset + 4, length - 2, "Image Data", <<>>) >>
           \o (IF markerByte = SOF0 /\ length > 5
               THEN << Field("Precision", offset + 4, 1), Field("Height", offset + 5, 2),
                       Field("Width", offset + 7, 2) >>
               ELSE <<>>))

\* The scan taken to end at the first 0xFF byte, stuffed or not.
RECURSIVE EntropyScan_AnyFF(_, _)
EntropyScan_AnyFF(b, scanEnd) ==
    IF ~(scanEnd < byteLength(b) - 1) THEN scanEnd
    ELSE IF getUint8(b, scanEnd) = 255 THEN scanEnd
    ELSE EntropyScan_AnyFF(b, scanEnd + 1)

\* The scan for the end of the entropy-coded data: the value of scanEnd
\* when the inner loop is left.
RECURSIVE EntropyScan(_, _)
EntropyScan(b, scanEnd) ==
    IF ~(scanEnd < byteLength(b) - 1) THEN scanEnd
    ELSE IF getUint8(b, scanEnd) = 255
    THEN LET nextByte == getUint8(b, scanEnd + 1)
         IN IF nextByte # 0 /\ ~(nextByte >= 208 /\ nextByte <= 215)
            THEN scanEnd
            ELSE EntropyScan(b, scanEnd + 2)
    ELSE EntropyScan(b, scanEnd + 1)

\* The end of the branch of a marker with a length: the segment is pushed
\* and, after SOS, the entropy-coded data up to scanEnd.
JpegAfterSegment(b, w, markerByte, length, scanEnd) ==
    LET pushed == Append(w.regions, JpegSegmentRegion(w.offset, markerByte, length))
        scanStart == w.offset + 2 + length
    IN IF markerByte = SOS /\ scanEnd > scanStart
       THEN [pc |-> "loop", offset |-> scanEnd,
             regions |-> Append(pushed, Region("Entropy Data", <<>>, scanStart,
                                               scanEnd - scanStart, "Image Data", <<>>))]
       ELSE [pc |-> "loop", offset |-> scanStart, regions |-> pushed]

\* The branch of a marker with a length.  The SOF0 fields are read with
\* getUint16 up to offset + 9, which throws when the file ends before.
JpegSegment(b, w, markerByte) ==
    IF w.offset + 4 > byteLength(b) THEN [w EXCEPT !.pc = "return"]
    ELSE LET length == getUint16(b, w.offset + 2, FALSE) IN
         IF w.offset + 2 + length > byteLength(b) THEN [w EXCEPT !.pc = "return"]
         ELSE IF markerByte = SOF0 /\ length > 5 /\ ~CanRead(b, w.offset + 7, 2)
         THEN [w EXCEPT !.pc = "threw"]
         ELSE JpegAfterSegment(b, w, markerByte, length,
                               EntropyScan(b, w.offset + 2 + length))

\* The loop test and one iteration of the body.
JpegIteration(b, w) ==
    IF ~(w.offset < byteLength(b) - 1) THEN [w EXCEPT !.pc = "return"]
    ELSE IF getUint8(b, w.offset) # 255 THEN [w EXCEPT !.offset = w.offset + 1]
    ELSE LET markerByte == getUint8(b, w.offset + 1) IN
         IF markerByte = 255 THEN [w EXCEPT !.offset = w.offset + 1]
         ELSE IF markerByte = 0 THEN [w EXCEPT !.offset = w.offset + 2]
         ELSE IF isStandalone(markerByte)
         THEN [pc |-> IF markerByte = EOI THEN "return" ELSE "loop",
               offset |-> w.offset + 2,
               regions |-> Append(w.regions,
                                  Region("Marker", <<markerByte>>, w.offset, 2,
                                         "JPEG Segment", <<>>))]
         ELSE JpegSegment(b, w, markerByte)

\* No parser has been entered: a parser runs from its call to its return
\* before anything else does.
NoParserRunning ==
    pngWalk.pc = "idle" /\ jpegWalk.pc = "idle" /\ heicWalk.pc = "idle"

\* parseJPEG is entered: offset = 0.
JpegStart ==
    /\ NoParserRunning
    /\ jpegWalk' = [pc |-> "loop", offset |-> 0, regions |-> <<>>]
    /\ UNCHANGED <<buf, parsed, errorMsg, query, mode, useRegex, searchOut,
                   pngWalk, appState, heicWalk, tabState>>

JpegLoop ==
    /\ jpegWalk.pc = "loop"
    /\ jpegWalk' = JpegIteration(buf, jpegWalk)
    /\ UNCHANGED <<buf, parsed, errorMsg, query, mode, useRegex, searchOut,
                   pngWalk, appState, heicWalk, tabState>>

\* parseJPEG returns its ParsedFile, or the RangeError leaves it.
JpegReturn ==
    /\ jpegWalk.pc \in {"return", "threw"}
    /\ parsed' = IF jpegWalk.pc = "threw" THEN Threw
                 ELSE Returned(ParsedFile(buf, jpegWalk.regions, <<>>, TRUE, "", "JPEG"))
    /\ jpegWalk' = [jpegWalk EXCEPT !.pc = "done"]
    /\ UNCHANGED <<buf, errorMsg, query, mode, useRegex, searchOut, pngWalk,
                   appState, heicWalk, tabState>>

MaxPieces == 3          \* pieces concatenated into a JPEG input

\* The pieces of a JPEG input: SOI; EOI; APP0 of length 4; APP0 of length 0;
\* COM of length 1; SOF0 of length 11; SOF0 of length 6; SOS of length 4;
\* entropy-coded bytes with a stuffed 0xFF; an RST0 marker and a byte; one
\* byte; a padding 0xFF; an APP0 declaring more bytes than follow.
JpegPieces ==
    { <<255, 216>>, <<255, 217>>, <<255, 224, 0, 4, 1, 2>>, <<255, 224, 0, 0>>,
      <<255, 254, 0, 1>>, <<255, 192, 0, 11, 8, 0, 2, 0, 3, 1, 1, 17, 0>>,
      <<255, 192, 0, 6, 8, 0, 2, 0>>, <<255, 218, 0, 4, 1, 0>>,
      <<18, 255, 0, 52>>, <<255, 208, 7>>, <<7>>, <<255>>,
      <<255, 224, 0, 50, 1>> }

\* The pieces one after the other.
JpegInput(b) ==
    \E pieces \in SeqsUpTo(JpegPieces, MaxPieces) :
        b = [len |-> Len(Flatten(pieces)), data |-> Flatten(pieces)]

InitJPEG ==
    /\ JpegInput(buf)
    /\ parsed = NoOutcome
    /\ errorMsg = <<>>
    /\ query = <<>>
    /\ mode = "ascii"
    /\ useRegex = FALSE
    /\ searchOut = NoOutcome
    /\ pngWalk = NoWalk
    /\ isSearchOpen = FALSE
    /\ isSearching = FALSE
    /\ clipboard = <<>>
    /\ jpegWalk = NoWalk
    /\ heicWalk = NoBoxWalk
    /\ NoTabs

NextJPEG == JpegStart \/ JpegLoop \/ JpegReturn

\* The loop is run to its end: JavaScript runs parseJPEG to completion.
SpecJPEG == InitJPEG /\ [][NextJPEG]_vars /\ WF_vars(NextJPEG)

----------------------------------------------------------------------------
(* parseHEIC (services/imageParser) *)

BOX_CONTAINERS ==
    { <<109, 111, 111, 118>>, <<116, 114, 97, 107>>, <<101, 100, 116, 115>>, <<109, 100, 105, 97>>,
      <<109, 105, 110, 102>>, <<100, 105, 110, 102>>, <<115, 116, 98, 108>>, <<109, 118, 101, 120>>,
      <<109, 111, 111, 102>>, <<116, 114, 97, 102>>, <<109, 102, 114, 97>>, <<115, 107, 105, 112>>,
      <<117, 100, 116, 97>>, <<109, 101, 116, 97>>, <<105, 112, 114, 111>>, <<115, 105, 110, 102>>,
      <<102, 105, 105, 110>>, <<112, 97, 101, 110>>, <<115, 116, 114, 107>> }

FTYP == <<102, 116, 121, 112>>
META == <<109, 101, 116, 97>>
MDAT == <<109, 100, 97, 116>>

\* A call of parseBoxes(start, end): its offset and boxes, and while it
\* waits for a nested call the box under construction and its boxSize.
BoxFrame(start, end) ==
    [end |-> end, offset |-> start, boxes |-> <<>>, box |-> <<>>, boxSize |-> 0]

\* The call below steps over its box by the size of the box's region.
BoxesReturn_StepByRegion(w) ==
    LET n == Len(w.stack)
        top == w.stack[n]
    IN IF n = 1 THEN [pc |-> "return", stack |-> <<>>, regions |-> top.boxes]
       ELSE LET below == w.stack[n - 1]
                boxRegion == [below.box[1] EXCEPT
                                 !.children = below.box[1].children \o top.boxes]
            IN [w EXCEPT !.stack =
                   Append(SubSeq(w.stack, 1, n - 2),
                          [below EXCEPT !.boxes = Append(below.boxes, boxRegion),
                                        !.offset = below.offset + boxRegion.size,
                                        !.box = <<>>, !.boxSize = 0])]

\* The top call returns its boxes: to parseHEIC, or to the call below,
\* which appends them to its box, pushes the box and steps over it.
BoxesReturn(w) ==
    LET n == Len(w.stack)
        top == w.stack[n]
    IN IF n = 1 THEN [pc |-> "return", stack |-> <<>>, regions |-> top.boxes]
       ELSE LET below == w.stack[n - 1]
                boxRegion == [below.box[1] EXCEPT
                                 !.children = below.box[1].children \o top.boxes]
            IN [w EXCEPT !.stack =
                   Append(SubSeq(w.stack, 1, n - 2),
                          [below EXCEPT !.boxes = Append(below.boxes, boxRegion),
                                        !.offset = below.offset + below.boxSize,
                                        !.box = <<>>, !.boxSize = 0])]

\* The loop body from the boxSize test on: the box region, the reads of an
\* 'ftyp' and of a 'meta' box (which throw past the end of the file), the
\* nested call for a container, the Data child of any other box.
BoxBody(b, w, type, boxSize, headerSize) ==
    LET n == Len(w.stack)
        top == w.stack[n]
        offset == top.offset
        effectiveEnd == Min(offset + boxSize, top.end)
        fields == << Field("Size", offset, 4), Field("Type", offset + 4, 4) >>
    IN IF boxSize < headerSize \/ offset + boxSize > top.end + 100 THEN BoxesReturn(w)
       ELSE IF type = FTYP /\ ~CanRead(b, offset + 12, 4) THEN [w EXCEPT !.pc = "threw"]
       ELSE IF type \in BOX_CONTAINERS
       THEN IF type = META /\ ~CanRead(b, offset + headerSize, 4)
            THEN [w EXCEPT !.pc = "threw"]
            ELSE LET contentOffset == offset + headerSize + (IF type = META THEN 4 ELSE 0)
                     boxRegion ==
                         Region("Box: ", type, offset, effectiveEnd - offset, "HEIC Box",
                                fields \o (IF type = META
                                           THEN << Field("Ver/Flags", offset + headerSize, 4) >>
                                           ELSE <<>>))
                 IN [w EXCEPT !.stack =
                        Append(SubSeq(w.stack, 1, n - 1),
                               [top EXCEPT !.box = <<boxRegion>>, !.boxSize = boxSize])
                        \o << BoxFrame(contentOffset, effectiveEnd) >>]
       ELSE LET boxRegion ==
                    Region("Box: ", type, offset, effectiveEnd - offset, "HEIC Box",
                           fields \o (IF effectiveEnd > offset + headerSize /\ type # MDAT
                                      THEN << Region("Data", <<>>, offset + headerSize,
                                                     effectiveEnd - (offset + headerSize),
                                                     "Image Data", <<>>) >>
                                      ELSE <<>>))
            IN [w EXCEPT !.stack[n] = [top EXCEPT !.boxes = Append(top.boxes, boxRegion),
                                                  !.offset = offset + boxSize]]

\* The n-byte big-endian number at off is 2^31 or more: it is above
\* end + 100 for every file held here, and the box is refused.
AtLeast2Pow31(b, off, n) ==
    \/ getUint8(b, off + n - 4) >= 128
    \/ \E k \in 0..(n - 5) : getUint8(b, off + k) # 0

\* The loop test of the top call and one iteration of its body, up to
\* boxSize and headerSize.
BoxIteration(b, w) ==
    LET top == w.stack[Len(w.stack)]
        offset == top.offset
    IN IF ~(offset < top.end) \/ offset + 8 > top.end THEN BoxesReturn(w)
       ELSE IF AtLeast2Pow31(b, offset, 4) THEN BoxesReturn(w)
       ELSE LET size32 == getUint32(b, offset, FALSE)
                type == readString(b, offset + 4, 4)
            IN IF size32 = 1
               THEN IF offset + 16 > top.end \/ AtLeast2Pow31(b, offset + 8, 8)
                    THEN BoxesReturn(w)
                    ELSE BoxBody(b, w, type, getBigUint64(b, offset + 8, FALSE), 16)
               ELSE IF size32 = 0 THEN BoxBody(b, w, type, top.end - offset, 8)
               ELSE BoxBody(b, w, type, size32, 8)

\* parseHEIC is entered and calls parseBoxes(0, view.byteLength).
HeicStart ==
    /\ NoParserRunning
    /\ heicWalk' = [pc |-> "loop", stack |-> << BoxFrame(0, byteLength(buf)) >>,
                    regions |-> <<>>]
    /\ UNCHANGED <<buf, parsed, errorMsg, query, mode, useRegex, searchOut,
                   pngWalk, appState, jpegWalk, tabState>>

HeicLoop ==
    /\ heicWalk.pc = "loop"
    /\ heicWalk' = BoxIteration(buf, heicWalk)
    /\ UNCHANGED <<buf, parsed, errorMsg, query, mode, useRegex, searchOut,
                   pngWalk, appState, jpegWalk, tabState>>

\* parseHEIC returns its ParsedFile, or the RangeError leaves it.
HeicReturn ==
    /\ heicWalk.pc \in {"return", "threw"}
    /\ parsed' = IF heicWalk.pc = "threw" THEN Threw
                 ELSE Returned(ParsedFile(buf, heicWalk.regions, <<>>, TRUE, "", "HEIC"))
    /\ heicWalk' = [heicWalk EXCEPT !.pc = "done"]
    /\ UNCHANGED <<buf, errorMsg, query, mode, useRegex, searchOut, pngWalk,
                   appState, jpegWalk, tabState>>

MaxNesting == 3         \* containers nested inside one another in a HEIC input
MaxBoxes == 2           \* top-level boxes of a HEIC input

\* Leaf boxes: 'ftyp' of 16 bytes; 'ftyp' and 'meta' of the minimum 8 bytes;
\* 'mdat' of 12; 'free' of 10; 'free' of size 0 with 3 bytes; 'free' of
\* size 1 with a 64-bit size of 20; 'free' declaring 60 bytes with 2 present;
\* 'free' declaring 500 bytes; 'free' declaring 4 bytes.
HeicLeaves ==
    { <<0, 0, 0, 16>> \o FTYP \o <<104, 101, 105, 99, 0, 0, 0, 0>>,
      <<0, 0, 0, 8>> \o FTYP,
      <<0, 0, 0, 8>> \o META,
      <<0, 0, 0, 12>> \o MDAT \o <<1, 2, 3, 4>>,
      <<0, 0, 0, 10, 102, 114, 101, 101, 1, 2>>,
      <<0, 0, 0, 0, 102, 114, 101, 101, 1, 2, 3>>,
      <<0, 0, 0, 1, 102, 114, 101, 101, 0, 0, 0, 0, 0, 0, 0, 20, 1, 2, 3, 4>>,
      <<0, 0, 0, 60, 102, 114, 101, 101, 1, 2>>,
      <<0, 0, 1, 244, 102, 114, 101, 101>>,
      <<0, 0, 0, 4, 102, 114, 101, 101>> }

\* A container around content: 'moov' with its size, 'meta' with its size
\* and version/flags, or 'moov' with size 0.
HeicWrap(kind, content) ==
    CASE kind = "moov" -> IntBytes(8 + Len(content), 4, FALSE)
                          \o <<109, 111, 111, 118>> \o content
      [] kind = "meta" -> IntBytes(12 + Len(content), 4, FALSE)
                          \o META \o <<0, 0, 0, 0>> \o content
      [] kind = "moov0" -> <<0, 0, 0, 0, 109, 111, 111, 118>> \o content

\* k containers of one kind around content.
RECURSIVE HeicNested(_, _, _)
HeicNested(kind, k, content) ==
    IF k = 0 THEN content ELSE HeicWrap(kind, HeicNested(kind, k - 1, content))

HeicItems ==
    HeicLeaves \cup
    { HeicNested(kind, k, inner) :
          kind \in {"moov", "meta", "moov0"}, k \in 1..MaxNesting,
          inner \in {<<>>, <<0, 0, 0, 10, 102, 114, 101, 101, 1, 2>>} }

\* The boxes one after the other; one box cut short by 3 bytes or followed
\* by 5 zero bytes.
HeicInput(b) ==
    \/ \E items \in SeqsUpTo(HeicItems, MaxBoxes) :
           b = [len |-> Len(Flatten(items)), data |-> Flatten(items)]
    \/ \E item \in HeicItems :
           \/ b = [len |-> Len(item) - 3, data |-> SubSeq(item, 1, Len(item) - 3)]
           \/ b = [len |-> Len(item) + 5, data |-> item]

InitHEIC ==
    /\ HeicInput(buf)
    /\ parsed = NoOutcome
    /\ errorMsg = <<>>
    /\ query = <<>>
    /\ mode = "ascii"
    /\ useRegex = FALSE
    /\ searchOut = NoOutcome
    /\ pngWalk = NoWalk
    /\ isSearchOpen = FALSE
    /\ isSearching = FALSE
    /\ clipboard = <<>>
    /\ jpegWalk = NoWalk
    /\ heicWalk = NoBoxWalk
    /\ NoTabs

NextHEIC == HeicStart \/ HeicLoop \/ HeicReturn

\* The calls are run to their end: JavaScript runs parseHEIC to completion.
SpecHEIC == InitHEIC /\ [][NextHEIC]_vars /\ WF_vars(NextHEIC)

----------------------------------------------------------------------------
(* The three image parsers on a few files *)

\* Files of 0, 4 and 20 zero bytes; a PNG signature with an IEND chunk; a
\* JPEG with SOI, an APP0 of length 0, SOS, entropy-coded data and EOI; a
\* HEIC 'meta' box of 8 bytes followed by a 'free' box; a 'ftyp' box of 8
\* bytes alone.
ImageInput(b) ==
    \/ \E len \in {0, 4, 20} : b = Blank(len)
    \/ \E data \in
          { <<137, 80, 78, 71, 13, 10, 26, 10, 0, 0, 0, 0>> \o IEND \o <<0, 0, 0, 0>>,
            <<255, 216, 255, 224, 0, 0, 255, 218, 0, 4, 1, 0, 18, 255, 0, 52, 255, 217>>,
            <<0, 0, 0, 8>> \o META \o <<0, 0, 0, 10, 102, 114, 101, 101, 1, 2>>,
            <<0, 0, 0, 8>> \o FTYP } :
           b = [len |-> Len(data), data |-> data]

InitImage ==
    /\ ImageInput(buf)
    /\ parsed = NoOutcome
    /\ errorMsg = <<>>
    /\ query = <<>>
    /\ mode = "ascii"
    /\ useRegex = FALSE
    /\ searchOut = NoOutcome
    /\ pngWalk = NoWalk
    /\ isSearchOpen = FALSE
    /\ isSearching = FALSE
    /\ clipboard = <<>>
    /\ jpegWalk = NoWalk
    /\ heicWalk = NoBoxWalk
    /\ NoTabs

NextImage == NextPNG \/ NextJPEG \/ NextHEIC

SpecImage == InitImage /\ [][NextImage]_vars /\ WF_vars(NextImage)

----------------------------------------------------------------------------
(* The tabs (App.tsx): handleFile around its await, closeSession,          *)
(* switchSession, updateActiveSession, and the search dialog of the active *)
(* session.  A React state update is applied to the latest state           *)
(* (setAppState(prev => ...)), in the order the handlers ran.              *)

MAX_SESSIONS == 5

MaxLoads == 6           \* calls of handleFile in a behaviour of SpecTabs
SearchLoads == 2        \* calls of handleFile in a behaviour of SpecTabSearch
MaxTimers == 1          \* search timers pending at one time

\* The files dropped on the window: an ELF header of 52 bytes with "MZ" at
\* offset 8, a Mach-O header of 28 bytes with "MZ" at offset 12, and a file
\* of 4 zero bytes, which no parser accepts.
TabFiles ==
    { Put(Put(Blank(52), 0, <<127, 69, 76, 70, 1, 1>>), 8, <<77, 90>>),
      Put(Put(Blank(28), 0, MAGIC_32_LE), 12, <<77, 90>>),
      Blank(4) }

\* The queries typed into the dialog of a tab: "MZ".
TabQueries == { <<77, 90>> }

\* A new FileSession (selection, viewOffset and currentSearchIndex are
\* display state and left out).
FileSession(id, file) ==
    [id |-> id, file |-> file, searchResults |-> <<>>, isSearchOpen |-> FALSE]

\* appState.sessions.find(s => s.id === appState.activeSessionId) || null:
\* the sessions with the active id (the first is the active session).
ActiveSessions(ss, id) == SelectSeq(ss, LAMBDA s : s.id = id)

\* updateActiveSession(partial) as a state update: partial is applied to the
\* session whose id is the activeSessionId of the state it is applied to.
\* Its guard reads the activeSessionId of the render that made the closure,
\* which is never null for the closures of the toolbar and of the dialog.
updateActiveSession(ss, id, field, value) ==
    [k \in 1..Len(ss) |->
        IF ss[k].id = id THEN [ss[k] EXCEPT ![field] = value] ELSE ss[k]]

\* handleFile up to its await: with 5 sessions (or more) in the state of the
\* current render it reports the maximum and returns; otherwise it starts
\* file.arrayBuffer() and yields.
HandleFileStart ==
    /\ loadsLeft > 0
    /\ loadsLeft' = loadsLeft - 1
    /\ IF Len(sessions) >= MAX_SESSIONS
       THEN /\ errorMsg' = <<"Maximum 5 files allowed. Close a tab to open a new file.">>
            /\ UNCHANGED reading
       ELSE /\ \E f \in TabFiles : reading' = [reading EXCEPT ![f] = @ + 1]
            /\ UNCHANGED errorMsg
    /\ UNCHANGED <<buf, parsed, query, mode, useRegex, searchOut, pngWalk, appState,
                   imageWalks, sessions, activeSessionId, timers, nextId>>

\* handleFile from the resolution of file.arrayBuffer() on, for a valid
\* file: the new session, with a fresh id, is appended to the sessions of
\* the latest state and made active.
HandleFileAppend(outcome) ==
    /\ sessions' = Append(sessions, FileSession(nextId, outcome.file))
    /\ activeSessionId' = nextId
    /\ nextId' = nextId + 1

\* handleFile from the resolution of file.arrayBuffer() on.
HandleFileResume ==
    \E f \in TabFiles :
        /\ reading[f] > 0
        /\ reading' = [reading EXCEPT ![f] = @ - 1]
        /\ errorMsg' = HandleFileError(DetectAndParse(f))
        /\ IF DetectAndParse(f).kind = "returned" /\ DetectAndParse(f).file.isValid
           THEN HandleFileAppend(DetectAndParse(f))
           ELSE UNCHANGED <<sessions, activeSessionId, nextId>>
        /\ UNCHANGED <<buf, parsed, query, mode, useRegex, searchOut, pngWalk, appState,
                       imageWalks, timers, loadsLeft>>

\* The dialog is mounted while there is an active session.  When it is
\* unmounted its isSearching is discarded (a new dialog starts with false),
\* and the timers it armed will find it gone.
DialogAfter(newSessions, newActiveId) ==
    IF ActiveSessions(newSessions, newActiveId) = <<>>
    THEN /\ isSearching' = FALSE
         /\ timers' = {[t EXCEPT !.live = FALSE] : t \in timers}
    ELSE UNCHANGED <<isSearching, timers>>

\* The id made active when the active tab is closed: the first remaining
\* session's.
newActiveId_First(newSessions) ==
    IF Len(newSessions) > 0 THEN newSessions[1].id ELSE NoSession

\* The id made active when the active tab is closed: the last remaining
\* session's, or null.
newActiveId(newSessions) ==
    IF Len(newSessions) > 0 THEN newSessions[Len(newSessions)].id ELSE NoSession

\* closeSession(id), from the close button of an open tab.
closeSession ==
    \E k \in 1..Len(sessions) :
        LET id == sessions[k].id
            newSessions == SelectSeq(sessions, LAMBDA s : s.id # id)
            newActive == IF id = activeSessionId THEN newActiveId(newSessions)
                         ELSE activeSessionId
        IN /\ sessions' = newSessions
           /\ activeSessionId' = newActive
           /\ DialogAfter(newSessions, newActive)
           /\ UNCHANGED <<buf, parsed, errorMsg, query, mode, useRegex, searchOut, pngWalk,
                          isSearchOpen, clipboard, imageWalks, reading, nextId, loadsLeft>>

\* switchSession(id), from a click on an open tab.
switchSession ==
    \E k \in 1..Len(sessions) :
        /\ activeSessionId' = sessions[k].id
        /\ UNCHANGED <<buf, parsed, errorMsg, query, mode, useRegex, searchOut, pngWalk,
                       appState, imageWalks, sessions, reading, timers, nextId, loadsLeft>>

\* Ctrl+F and the toolbar button, with an active session:
\* updateActiveSession({ isSearchOpen: !activeSession.isSearchOpen }).
SessionToggleSearch ==
    /\ ActiveSessions(sessions, activeSessionId) # <<>>
    /\ sessions' = updateActiveSession(sessions, activeSessionId, "isSearchOpen",
                       ~ActiveSessions(sessions, activeSessionId)[1].isSearchOpen)
    /\ UNCHANGED <<buf, parsed, errorMsg, query, mode, useRegex, searchOut, pngWalk,
                   appState, imageWalks, activeSessionId, reading, timers, nextId,
                   loadsLeft>>

\* handleSearch in the open dialog of the active session, by the Enter key
\* (which does not look at isSearching): the timer is armed with the file
\* prop, the query, the mode and useRegex of this render.
SessionHandleSearch ==
    /\ ActiveSessions(sessions, activeSessionId) # <<>>
    /\ ActiveSessions(sessions, activeSessionId)[1].isSearchOpen
    /\ Cardinality(timers) < MaxTimers
    /\ \E q \in TabQueries, m \in {"ascii", "hex"} :
           timers' = timers \cup
               { [file |-> ActiveSessions(sessions, activeSessionId)[1].file,
                  query |-> q, mode |-> m, useRegex |-> FALSE, live |-> TRUE] }
    /\ isSearching' = TRUE
    /\ UNCHANGED <<buf, parsed, errorMsg, query, mode, useRegex, searchOut, pngWalk,
                   isSearchOpen, clipboard, imageWalks, sessions, activeSessionId,
                   reading, nextId, loadsLeft>>

\* onResults(res): updateActiveSession({ searchResults: results, ... }).
onResults(ss, id, res) == updateActiveSession(ss, id, "searchResults", res)

\* The callback of a search timer: searchPE on the file captured when the
\* timer was armed; its results go to onResults, an exception only to the
\* dialog's error text; then isSearching is reset in the dialog that armed
\* the timer.
SessionSearchTimeout ==
    \E t \in timers :
        /\ timers' = timers \ {t}
        /\ IF searchPE(t.file, t.query, t.mode, t.useRegex).kind = "returned"
           THEN sessions' = onResults(sessions, activeSessionId,
                               searchPE(t.file, t.query, t.mode, t.useRegex).results)
           ELSE UNCHANGED sessions
        /\ isSearching' = IF t.live THEN FALSE ELSE isSearching
        /\ UNCHANGED <<buf, parsed, errorMsg, query, mode, useRegex, searchOut, pngWalk,
                       isSearchOpen, clipboard, imageWalks, activeSessionId, reading,
                       nextId, loadsLeft>>

\* The window after construction, with loads calls of handleFile to come.
InitWindow(loads) ==
    /\ buf = Blank(0)
    /\ parsed = NoOutcome
    /\ errorMsg = <<>>
    /\ query = <<>>
    /\ mode = "ascii"
    /\ useRegex = FALSE
    /\ searchOut = NoOutcome
    /\ pngWalk = NoWalk
    /\ isSearchOpen = FALSE
    /\ isSearching = FALSE
    /\ clipboard = <<>>
    /\ jpegWalk = NoWalk
    /\ heicWalk = NoBoxWalk
    /\ sessions = <<>>
    /\ activeSessionId = NoSession
    /\ reading = [f \in TabFiles |-> 0]
    /\ timers = {}
    /\ nextId = 1
    /\ loadsLeft = loads

InitTabs == InitWindow(MaxLoads)

NextTabs == HandleFileStart \/ HandleFileResume \/ closeSession \/ switchSession

\* Opening, closing and switching tabs.
SpecTabs == InitTabs /\ [][NextTabs]_vars

InitTabSearch == InitWindow(SearchLoads)

NextTabSearch ==
    \/ NextTabs
    \/ SessionToggleSearch
    \/ SessionHandleSearch
    \/ SessionSearchTimeout

\* The same with the search dialog.
SpecTabSearch == InitTabSearch /\ [][NextTabSearch]_vars

----------------------------------------------------------------------------
(* Properties of the detect-and-parse step, checked under SpecParse *)

\* handleFile has run on buf.
Parsed == parsed # NoOutcome

\* The parser returned a ParsedFile with isValid = true of the given format.
ParsedValid(format) ==
    parsed.kind = "returned" /\ parsed.file.isValid /\ parsed.file.format = format

\* C1: parsing is total: for every buffer the detect-and-parse step returns a
\* ParsedFile and never raises (an internal exception would have been turned
\* into a ParsedFile with isValid = false).
C1_ParsingIsTotal ==
    Parsed => parsed.kind = "returned"

\* The first bytes of b match none of 'MZ', 7F 45 4C 46 and the eight
\* Mach-O / Fat magics, or b is shorter than 4 bytes.
Unrecognised(b) ==
    \/ b.len < 4
    \/ /\ ~(ByteAt(b, 0) = 77 /\ ByteAt(b, 1) = 90)
       /\ <<ByteAt(b, 0), ByteAt(b, 1), ByteAt(b, 2), ByteAt(b, 3)>> \notin
              { <<127, 69, 76, 70>>,
                <<254, 237, 250, 206>>, <<206, 250, 237, 254>>,
                <<254, 237, 250, 207>>, <<207, 250, 237, 254>>,
                <<202, 254, 186, 190>>, <<190, 186, 254, 202>>,
                <<202, 254, 186, 191>>, <<191, 186, 254, 202>> }

\* C2: a buffer shorter than 4 bytes, or whose first bytes match no known
\* magic, is handed to the PE parser, which returns (without raising) a
\* ParsedFile with isValid = false, a non-empty error and format 'PE'.
C2_UnrecognisedIsInvalidPE ==
    (Parsed /\ Unrecognised(buf)) =>
        /\ parsed.kind = "returned"
        /\ ~parsed.file.isValid
        /\ parsed.file.error # ""
        /\ parsed.file.format = "PE"

\* C2 witnesses: an unrecognised buffer of at least 64 bytes has been parsed
\* and rejected for its signature.
C2_Witness ==
    /\ Parsed /\ Unrecognised(buf) /\ buf.len >= 64
    /\ parsed.kind = "returned"
    /\ parsed.file.error = "Invalid DOS signature (not MZ)"

\* Every region of rs, and of its descendants, has size >= 0 and lies in
\* [lo, hi); every child lies in its parent's range.
RECURSIVE RegionsNested(_, _, _)
RegionsNested(rs, lo, hi) ==
    \A k \in 1..Len(rs) :
        /\ rs[k].size >= 0
        /\ rs[k].offset >= lo
        /\ rs[k].offset + rs[k].size <= hi
        /\ RegionsNested(rs[k].children, rs[k].offset, rs[k].offset + rs[k].size)

\* C3: when parsePE returns isValid = true, every region of the tree has
\* size >= 0 and offset + size <= file size, and every child's byte range lies
\* within its parent's.
C3_PERegionsInBounds ==
    (Parsed /\ ParsedValid("PE")) =>
        RegionsNested(parsed.file.regions, 0, parsed.file.size)

\* Every region of rs, and of its descendants, lies in [lo, hi).
RECURSIVE RegionsInside(_, _, _)
RegionsInside(rs, lo, hi) ==
    \A k \in 1..Len(rs) :
        /\ rs[k].offset >= lo
        /\ rs[k].offset + rs[k].size <= hi
        /\ RegionsInside(rs[k].children, lo, hi)

\* The file starts with one of the four Fat / Universal magics.
IsFat(b) ==
    b.len >= 8 /\
    <<ByteAt(b, 0), ByteAt(b, 1), ByteAt(b, 2), ByteAt(b, 3)>> \in
        { <<202, 254, 186, 190>>, <<190, 186, 254, 202>>,
          <<202, 254, 186, 191>>, <<191, 186, 254, 202>> }

\* nfat_arch as the Fat header declares it.
DeclaredArchs(b) ==
    IF ByteAt(b, 0) = 202
    THEN ((ByteAt(b, 4) * 256 + ByteAt(b, 5)) * 256 + ByteAt(b, 6)) * 256 + ByteAt(b, 7)
    ELSE ((ByteAt(b, 7) * 256 + ByteAt(b, 6)) * 256 + ByteAt(b, 5)) * 256 + ByteAt(b, 4)

\* The slice regions of a parsed Fat file.
Slices(file) == SelectSeq(file.regions, LAMBDA r : r.name[1] = "Slice")

\* C4 (slice count): a Fat file declaring N architectures yields N slices.
C4_SliceCount ==
    (Parsed /\ IsFat(buf) /\ ParsedValid("Mach-O")) =>
        Len(Slices(parsed.file)) = DeclaredArchs(buf)

\* C4 (disjointness): the slices' byte ranges are pairwise non-overlapping.
C4_SlicesDisjoint ==
    (Parsed /\ IsFat(buf) /\ ParsedValid("Mach-O")) =>
        LET sl == Slices(parsed.file) IN
        \A i, j \in 1..Len(sl) :
            i < j => \/ sl[i].offset + sl[i].size <= sl[j].offset
                     \/ sl[j].offset + sl[j].size <= sl[i].offset

\* C4 (containment): every region nested under a slice lies within
\* [sliceOffset, sliceOffset + sliceSize).
C4_NestedInsideSlice ==
    (Parsed /\ IsFat(buf) /\ ParsedValid("Mach-O")) =>
        LET sl == Slices(parsed.file) IN
        \A i \in 1..Len(sl) :
            RegionsInside(sl[i].children, sl[i].offset, sl[i].offset + sl[i].size)

\* C4: a Fat Mach-O declaring N architectures yields N slice regions,
\* pairwise non-overlapping, each containing all the regions nested under it.
C4_FatSlices ==
    C4_SliceCount /\ C4_SlicesDisjoint /\ C4_NestedInsideSlice

RECURSIVE SumSizes(_)
SumSizes(rs) == IF rs = <<>> THEN 0 ELSE rs[1].size + SumSizes(Tail(rs))

\* The furthest end offset + size among the regions of rs.
RECURSIVE FurthestEnd(_)
FurthestEnd(rs) ==
    IF rs = <<>> THEN 0 ELSE Max(rs[1].offset + rs[1].size, FurthestEnd(Tail(rs)))

IsOverlay(r) == r.type = "Overlay"

\* C5 (coverage): the top-level region sizes of a parsed PE, Overlay
\* included, sum to the file length.
C5_SizesSumToFileLength ==
    (Parsed /\ ParsedValid("PE")) =>
        SumSizes(parsed.file.regions) = parsed.file.size

\* C5 (overlay): the Overlay region starts where the furthest-reaching other
\* top-level region ends, and ends at the end of the file.
C5_OverlayFromFurthestEnd ==
    (Parsed /\ ParsedValid("PE")) =>
        LET rs == parsed.file.regions
            known == SelectSeq(rs, LAMBDA r : ~IsOverlay(r))
        IN \A k \in 1..Len(rs) :
               IsOverlay(rs[k]) =>
                   /\ rs[k].offset = FurthestEnd(known)
                   /\ rs[k].offset + rs[k].size = parsed.file.size

\* C5: the top-level regions of a parsed PE account for the whole file: their
\* sizes sum to the file length, and the Overlay runs from the end of the
\* furthest-reaching structure to the end of the file.
C5_PECoversFile ==
    C5_SizesSumToFileLength /\ C5_OverlayFromFurthestEnd

----------------------------------------------------------------------------
(* Properties of searchPE, under SpecSearch.  The definitions below state  *)
(* what a search is expected to find, independently of the search code.   *)

Searched == searchOut # NoOutcome

\* The bytes of the loaded file.
Data == parsed.file.data

WhitespaceChars ==
    {9, 10, 11, 12, 13, 32, 160, 5760, 8232, 8233, 8239, 8287, 12288, 65279} \cup (8192..8202)

\* The characters of s from index i on with every "0x"/"0X" met in one
\* left-to-right pass left out.
RECURSIVE SkipPrefixes(_, _)
SkipPrefixes(s, i) ==
    IF i > Len(s) THEN <<>>
    ELSE IF i < Len(s) /\ s[i] = 48 /\ (s[i + 1] = 120 \/ s[i + 1] = 88)
    THEN SkipPrefixes(s, i + 2)
    ELSE <<s[i]>> \o SkipPrefixes(s, i + 1)

\* The normalized hex query: whitespace removed, then the "0x"/"0X".
Normalized(q) == SkipPrefixes(SelectSeq(q, LAMBDA c : c \notin WhitespaceChars), 1)

\* "0123456789ABCDEF" and "0123456789abcdef"
HexUpper == <<48, 49, 50, 51, 52, 53, 54, 55, 56, 57, 65, 66, 67, 68, 69, 70>>
HexLower == <<48, 49, 50, 51, 52, 53, 54, 55, 56, 57, 97, 98, 99, 100, 101, 102>>

HexValue(c) == CHOOSE v \in 0..15 : c = HexUpper[v + 1] \/ c = HexLower[v + 1]

\* An even-length string of hex digits (the empty string is one).
IsEvenHex(s) ==
    /\ Len(s) % 2 = 0
    /\ \A k \in 1..Len(s) : \E v \in 0..15 : s[k] = HexUpper[v + 1] \/ s[k] = HexLower[v + 1]

DecodedHex(s) ==
    <<>> \o [k \in 1..(Len(s) \div 2) |-> 16 * HexValue(s[2 * k - 1]) + HexValue(s[2 * k])]

\* UTF-16LE: for each character the low byte, then the high byte.
RECURSIVE Utf16LE(_)
Utf16LE(q) ==
    IF q = <<>> THEN <<>>
    ELSE <<Head(q) % 256, Head(q) \div 256>> \o Utf16LE(Tail(q))

\* The offsets i with 0 <= i <= len - m at which buffer[i .. i+m) equals p.
Occurrences(b, p) ==
    {i \in 0..(byteLength(b) - Len(p)) : \A j \in 1..Len(p) : ByteAt(b, i + j - 1) = p[j]}

Offsets(rs) == {rs[k].offset : k \in 1..Len(rs)}

\* rs lists, in increasing order and each with size m, the offsets of occ,
\* all of them or the SEARCH_LIMIT lowest.
FirstOccurrences(rs, occ, m) ==
    /\ Len(rs) = Min(Cardinality(occ), 2000)
    /\ \A k \in 1..Len(rs) : rs[k].size = m /\ rs[k].offset \in occ
    /\ \A k \in 1..(Len(rs) - 1) : rs[k].offset < rs[k + 1].offset
    /\ Len(rs) > 0 => Offsets(rs) = {i \in occ : i <= rs[Len(rs)].offset}

\* The successive matches of a global pattern over the decoded file, as
\* String.prototype.matchAll lists them: after an empty match the scan
\* resumes one character further on.
MatchAllPush(st, match) ==
    IF match = NoMatch THEN [st EXCEPT !.done = TRUE]
    ELSE [done |-> FALSE,
          lastIndex |-> IF match.end = match.index THEN match.end + 1 ELSE match.end,
          matches |-> Append(st.matches, match.index)]

MatchAllStep(b, atoms, st) ==
    IF st.done THEN st
    ELSE MatchAllPush(st, FirstMatch(b, atoms, st.lastIndex, byteLength(b)))

RECURSIVE MatchAllLoop(_, _, _, _)
MatchAllLoop(b, atoms, n, st) ==
    IF n = 0 \/ st.done THEN st
    ELSE IF n = 1 THEN MatchAllStep(b, atoms, st)
    ELSE MatchAllLoop(b, atoms, n - n \div 2, MatchAllLoop(b, atoms, n \div 2, st))

\* The start offsets of the matches of the regular expression q, in order.
RegexMatches(b, q) ==
    MatchAllLoop(b, RegexAtoms(q), byteLength(b) + 2,
                 [done |-> FALSE, lastIndex |-> 0, matches |-> <<>>]).matches

\* The pattern bytes of a literal search.
PatternBytes ==
    CASE mode = "hex" -> DecodedHex(Normalized(query))
      [] mode = "unicode" -> Utf16LE(query)
      [] OTHER -> query

\* C6: whenever a search returns normally its result list is in ascending
\* order of offset and holds at most 2,000 entries, and when more than 2,000
\* matches exist the list is exactly the 2,000 matches with the lowest
\* offsets.
C6_LowestMatchesFirst ==
    (Searched /\ searchOut.kind = "returned") =>
        /\ Len(searchOut.results) <= 2000
        /\ \A k \in 1..(Len(searchOut.results) - 1) :
               searchOut.results[k].offset <= searchOut.results[k + 1].offset
        /\ (query # <<>> /\ mode = "ascii" /\ useRegex
              /\ Len(RegexMatches(Data, query)) > 2000) =>
               [k \in 1..Len(searchOut.results) |-> searchOut.results[k].offset]
                   = SubSeq(RegexMatches(Data, query), 1, 2000)
        /\ (query # <<>> /\ ~(mode = "ascii" /\ useRegex)
              /\ Cardinality(Occurrences(Data, PatternBytes)) > 2000) =>
               FirstOccurrences(searchOut.results, Occurrences(Data, PatternBytes),
                                Len(PatternBytes))

C9_RaisesIffNotEvenHex ==
    (Searched /\ mode = "hex") =>
        (searchOut.kind = "threw" <=> ~IsEvenHex(Normalized(query)))

\* C9, amended: in hex mode a non-empty query is normalized by removing all
\* whitespace and then every "0x"/"0X" found in one left-to-right pass; the
\* search raises exactly when the normalized string is empty, of odd length
\* or holds a character that is not a hex digit, and otherwise returns
\* without raising results that are occurrences of the decoded bytes; the
\* empty query returns the empty list.
C9_HexQueryValidation ==
    (Searched /\ mode = "hex") =>
        IF query = <<>> THEN searchOut = Results(<<>>)
        ELSE IF Normalized(query) # <<>> /\ IsEvenHex(Normalized(query))
        THEN /\ searchOut.kind = "returned"
             /\ \A k \in 1..Len(searchOut.results) :
                    /\ searchOut.results[k].size = Len(Normalized(query)) \div 2
                    /\ searchOut.results[k].offset
                           \in Occurrences(Data, DecodedHex(Normalized(query)))
        ELSE searchOut.kind = "threw"

C9_Witness ==
    /\ Searched /\ mode = "hex"
    /\ query = <<48, 120, 52, 68, 32, 48, 120, 53, 65>>
    /\ searchOut.kind = "returned"
    /\ Len(searchOut.results) = 1
    /\ searchOut.results[1].offset = 0

----------------------------------------------------------------------------
(* Properties of offsetToRva, as searchPE applies it to every result *)

\* Section i's raw-file range [pointerToRawData, pointerToRawData +
\* sizeOfRawData) contains the offset.
RawRangeContains(secs, i, o) ==
    /\ secs[i].pointerToRawData <= o
    /\ o < secs[i].pointerToRawData + secs[i].sizeOfRawData

\* The sections that map the offset: their raw range contains it and the
\* delta is less than their virtual size.
MappingSections(secs, o) ==
    {i \in 1..Len(secs) :
        RawRangeContains(secs, i, o) /\ o - secs[i].pointerToRawData < secs[i].virtualSize}

FirstMapping(secs, o) ==
    CHOOSE i \in MappingSections(secs, o) : \A j \in MappingSections(secs, o) : i <= j

\* C11: whenever some section's raw-file range contains the offset and the
\* delta offset - pointerToRawData is less than that section's virtualSize,
\* offsetToRva returns virtualAddress + delta of the first such section in
\* list order.
C11_MapsThroughFirstSection ==
    (Searched /\ searchOut.kind = "returned") =>
        \A k \in 1..Len(searchOut.results) :
            MappingSections(parsed.file.sectionsMetadata, searchOut.results[k].offset) # {} =>
                searchOut.results[k].rva =
                    << parsed.file.sectionsMetadata[
                           FirstMapping(parsed.file.sectionsMetadata,
                                        searchOut.results[k].offset)].virtualAddress
                       + searchOut.results[k].offset
                       - parsed.file.sectionsMetadata[
                           FirstMapping(parsed.file.sectionsMetadata,
                                        searchOut.results[k].offset)].pointerToRawData >>

\* A result at an offset that two sections map, reported through the first.
C11_Witness ==
    /\ Searched /\ searchOut.kind = "returned"
    /\ \E k \in 1..Len(searchOut.results) :
           /\ Cardinality(MappingSections(parsed.file.sectionsMetadata,
                                          searchOut.results[k].offset)) = 2
           /\ searchOut.results[k].offset = 210
           /\ searchOut.results[k].rva = <<8194>>

\* C12: offsetToRva returns the offset unchanged only when no section's
\* raw-file range contains the offset and the offset precedes the first
\* section's raw-file start; in every other case that is not a successful
\* in-section mapping it returns undefined.
C12_IdentityOnlyBeforeSections ==
    (Searched /\ searchOut.kind = "returned") =>
        \A k \in 1..Len(searchOut.results) :
            MappingSections(parsed.file.sectionsMetadata, searchOut.results[k].offset) = {} =>
                searchOut.results[k].rva =
                    IF /\ \A i \in 1..Len(parsed.file.sectionsMetadata) :
                              ~RawRangeContains(parsed.file.sectionsMetadata, i,
                                                searchOut.results[k].offset)
                       /\ Len(parsed.file.sectionsMetadata) > 0
                       /\ searchOut.results[k].offset
                              < parsed.file.sectionsMetadata[1].pointerToRawData
                    THEN <<searchOut.results[k].offset>>
                    ELSE <<>>

----------------------------------------------------------------------------
(* Properties of parsePNG, under SpecPNG *)

\* The chunk regions emitted so far (all regions but the signature).
Chunks == Tail(pngWalk.regions)

\* The data length the chunk declares in the file.
DeclaredLength(r) == getUint32(buf, r.offset, FALSE)

IsIend(r) == readString(buf, r.offset + 4, 4) = <<73, 69, 78, 68>>

\* Every chunk region has size declared length + 12, the first starts at
\* offset 8 and each next one at the previous chunk's offset + size; no
\* chunk follows an IEND chunk; and the returned regions are those walked.
C13_ChunkLayout ==
    pngWalk.pc # "idle" =>
        /\ \A k \in 1..Len(Chunks) :
               /\ Chunks[k].size = DeclaredLength(Chunks[k]) + 12
               /\ Chunks[k].offset = IF k = 1 THEN 8
                                     ELSE Chunks[k - 1].offset + Chunks[k - 1].size
               /\ k < Len(Chunks) => ~IsIend(Chunks[k])
        /\ pngWalk.pc = "loop" =>
               /\ pngWalk.offset = IF Chunks = <<>> THEN 8
                                ELSE Chunks[Len(Chunks)].offset + Chunks[Len(Chunks)].size
               /\ Chunks # <<>> => ~IsIend(Chunks[Len(Chunks)])
        /\ pngWalk.pc = "done" => parsed = Returned(ParsedFile(buf, pngWalk.regions, <<>>, TRUE, "", "PNG"))

\* C13: for every buffer the PNG chunk pngWalk terminates; it emits no chunk
\* after an IEND chunk; every emitted chunk region has size equal to its
\* declared data length plus 12, and the next chunk read starts exactly at
\* the previous chunk's offset + size.
C13_PngWalkTerminates == []C13_ChunkLayout /\ <>(pngWalk.pc = "done")

\* The pngWalk has returned at an IEND chunk with a whole chunk's worth of
\* bytes left behind it.
C13_Witness ==
    /\ pngWalk.pc = "done"
    /\ Len(Chunks) >= 2
    /\ IsIend(Chunks[Len(Chunks)])
    /\ Chunks[Len(Chunks)].offset + Chunks[Len(Chunks)].size + 12 <= byteLength(buf)

----------------------------------------------------------------------------
(* Properties of the Mach-O load-command walk, under SpecParse *)

ThinMagics ==
    { <<254, 237, 250, 206>>, <<206, 250, 237, 254>>,
      <<254, 237, 250, 207>>, <<207, 250, 237, 254>> }

\* The byte order and header size the magic at offset o announces.
MagicAt(b, o) == <<ByteAt(b, o), ByteAt(b, o + 1), ByteAt(b, o + 2), ByteAt(b, o + 3)>>

MagicIsLE(b, o) == ByteAt(b, o) \in {206, 207}

MachHeaderSize(b, o) == IF 207 \in {ByteAt(b, o), ByteAt(b, o + 3)} THEN 32 ELSE 28

\* A single-architecture Mach-O image whose header fits in the file.
IsThinMachO(b) ==
    b.len >= 28 /\ MagicAt(b, 0) \in ThinMagics /\ MachHeaderSize(b, 0) <= b.len

\* The load commands the file chains from offset c on, n of them at most:
\* each starts where the previous one's cmdsize ends, as long as its 8-byte
\* header lies in the file.
RECURSIVE ChainedCmds(_, _, _, _)
ChainedCmds(b, isLE, c, n) ==
    IF n = 0 \/ c + 8 > b.len THEN <<>>
    ELSE << [offset |-> c, cmdsize |-> getUint32(b, c + 4, isLE)] >>
         \o ChainedCmds(b, isLE, c + getUint32(b, c + 4, isLE), n - 1)

\* The load commands of the image at offset o.
DeclaredCmds(b, o) ==
    ChainedCmds(b, MagicIsLE(b, o), o + MachHeaderSize(b, o),
                getUint32(b, o + 16, MagicIsLE(b, o)))

\* The indices of the commands whose cmdsize runs past the end of the file.
Overrunning(b, cmds) ==
    {i \in 1..Len(cmds) : cmds[i].offset + cmds[i].cmdsize > b.len}

\* The load-command regions of a parsed single-architecture file.
LoadCommandRegions(file) ==
    SelectSeq(file.regions, LAMBDA r : r.name[1] = "Load Commands")[1].children

\* C14: a load command whose declared cmdsize would run past the end of
\* the buffer stops the walk: parsing still returns a valid ParsedFile
\* without raising, the load commands decoded before it are retained, and
\* no load-command region extending past the end of the buffer is emitted.
C14_OverrunStopsWalk ==
    (Parsed /\ IsThinMachO(buf) /\ Overrunning(buf, DeclaredCmds(buf, 0)) # {}) =>
        /\ ParsedValid("Mach-O")
        /\ \A i \in 1..Len(DeclaredCmds(buf, 0)) :
               (\A j \in Overrunning(buf, DeclaredCmds(buf, 0)) : i < j) =>
                   /\ Len(LoadCommandRegions(parsed.file)) >= i
                   /\ LoadCommandRegions(parsed.file)[i].offset = DeclaredCmds(buf, 0)[i].offset
                   /\ LoadCommandRegions(parsed.file)[i].size = DeclaredCmds(buf, 0)[i].cmdsize
        /\ \A k \in 1..Len(LoadCommandRegions(parsed.file)) :
               LoadCommandRegions(parsed.file)[k].offset
                   + LoadCommandRegions(parsed.file)[k].size <= buf.len

----------------------------------------------------------------------------
(* Properties of the slices of a Fat Mach-O, under SpecParse *)

\* The regions named n among rs.
Named(rs, n) == SelectSeq(rs, LAMBDA r : r.name[1] = n)

\* The section-header regions under the load commands cmds, in order.
RECURSIVE SectionHeaders(_)
SectionHeaders(cmds) ==
    IF cmds = <<>> THEN <<>>
    ELSE Named(cmds[1].children, "Section") \o SectionHeaders(Tail(cmds))

\* The offset field of the section header at file offset h of the image at S.
SectionOffsetField(b, S, h) ==
    getUint32(b, h + (IF MachHeaderSize(b, S) = 32 THEN 48 ELSE 40), MagicIsLE(b, S))

\* The fileoff and filesize fields of the segment command at file offset c.
SegmentFileOff(b, S, c) ==
    IF MachHeaderSize(b, S) = 32 THEN getBigUint64(b, c + 40, MagicIsLE(b, S))
    ELSE getUint32(b, c + 32, MagicIsLE(b, S))

\* The load-command regions of a slice (none when the slice holds no image).
SliceCommands(sl) ==
    IF Named(sl.children, "Load Commands") = <<>> THEN <<>>
    ELSE Named(sl.children, "Load Commands")[1].children

\* The raw pointers expected for the slices sl: for each slice at S, S + the
\* offset field of each of its section headers.
RECURSIVE ExpectedPointers(_, _)
ExpectedPointers(b, sl) ==
    IF sl = <<>> THEN <<>>
    ELSE [k \in 1..Len(SectionHeaders(SliceCommands(sl[1]))) |->
             sl[1].offset
             + SectionOffsetField(b, sl[1].offset,
                                  SectionHeaders(SliceCommands(sl[1]))[k].offset)]
         \o ExpectedPointers(b, Tail(sl))

\* The regions of the slice at S are in file coordinates.
SliceIsAbsolute(b, sl) ==
    sl.children # <<>> =>
        /\ Len(Named(sl.children, "Mach-O Header")) = 1
        /\ Named(sl.children, "Mach-O Header")[1].offset = sl.offset
        /\ Len(Named(sl.children, "Load Commands")) = 1
        /\ Named(sl.children, "Load Commands")[1].offset
               = sl.offset + MachHeaderSize(b, sl.offset)
        /\ \A k \in 1..Len(SliceCommands(sl)) :
               /\ k <= Len(DeclaredCmds(b, sl.offset))
               /\ SliceCommands(sl)[k].offset = DeclaredCmds(b, sl.offset)[k].offset
        /\ \A k \in 1..Len(Named(sl.children, "Segment")) :
               \E i \in 1..Len(DeclaredCmds(b, sl.offset)) :
                   Named(sl.children, "Segment")[k].offset
                       = sl.offset + SegmentFileOff(b, sl.offset,
                                                    DeclaredCmds(b, sl.offset)[i].offset)

\* C15: for a slice of a Fat Mach-O located at file offset S, every region
\* emitted for the slice and every sectionsMetadata raw pointer is in
\* absolute file coordinates: the header region starts at S, each load command
\* at S + its intra-slice offset, each segment data region at S + segment
\* fileoff, and each section's pointerToRawData is S + the section's offset
\* field.
C15_SlicesInFileCoordinates ==
    (Parsed /\ IsFat(buf) /\ ParsedValid("Mach-O")) =>
        /\ \A k \in 1..Len(Slices(parsed.file)) :
               SliceIsAbsolute(buf, Slices(parsed.file)[k])
        /\ [k \in 1..Len(parsed.file.sectionsMetadata) |->
               parsed.file.sectionsMetadata[k].pointerToRawData]
               = ExpectedPointers(buf, Slices(parsed.file))

\* A slice at offset 248 with its segment data at 248 + 160 and a section
\* whose raw pointer is 248 + 160.
C15_Witness ==
    /\ Parsed /\ IsFat(buf) /\ ParsedValid("Mach-O")
    /\ \E k \in 1..Len(Slices(parsed.file)) :
           /\ Slices(parsed.file)[k].offset = 248
           /\ Len(Named(Slices(parsed.file)[k].children, "Segment")) = 1
           /\ Named(Slices(parsed.file)[k].children, "Segment")[1].offset = 408
    /\ \E k \in 1..Len(parsed.file.sectionsMetadata) :
           parsed.file.sectionsMetadata[k].pointerToRawData = 408

\* The load commands that precede an overrunning one are kept.
C14_EarlierCommandsRetained ==
    (Parsed /\ IsThinMachO(buf) /\ ParsedValid("Mach-O")) =>
        \A i \in 1..Len(DeclaredCmds(buf, 0)) :
            (\A j \in Overrunning(buf, DeclaredCmds(buf, 0)) : i < j) =>
                /\ Len(LoadCommandRegions(parsed.file)) >= i
                /\ LoadCommandRegions(parsed.file)[i].offset = DeclaredCmds(buf, 0)[i].offset

----------------------------------------------------------------------------
(* Properties of the window: the search dialog and the copy command *)

\* The search has gone through the buffer to its end: it returned, and not
\* because the cap on the number of results was reached.
ScannedWholeBuffer ==
    searchOut.kind = "returned" /\ Len(searchOut.results) < SEARCH_LIMIT

\* C16: a running search can be aborted by its caller before it has visited
\* the whole buffer: when the dialog is closed while a search is under way,
\* the step that ends that search has not scanned the buffer to its end.
C16_SearchCanBeAborted ==
    [][(isSearching /\ ~isSearchOpen /\ ~isSearching') => ~ScannedWholeBuffer']_vars

----------------------------------------------------------------------------
(* Properties of the order of the regions *)

Ascending(rs) == \A k \in 1..(Len(rs) - 1) : rs[k].offset <= rs[k + 1].offset

\* C17: the top-level regions of every ParsedFile returned by parsePE,
\* parseELF or parseMachO are in ascending order of offset.
C17_RegionsSortedByOffset ==
    parsed.kind = "returned" => Ascending(parsed.file.regions)

\* The same for the files of one format.
C17_SortedIn(format) ==
    (parsed.kind = "returned" /\ parsed.file.format = format) =>
        Ascending(parsed.file.regions)

C17_ElfSorted == C17_SortedIn("ELF")

C17_MachOSorted == C17_SortedIn("Mach-O")

----------------------------------------------------------------------------
(* Properties of parsePE's early returns *)

\* The buffer is handed to parsePE: it starts with 'MZ', or with no magic
\* number that is recognised.
GoesToPE(b) == Unrecognised(b) \/ (ByteAt(b, 0) = 77 /\ ByteAt(b, 1) = 90)

\* The bytes 60..63 of the buffer as a little-endian number.
LfanewField(b) ==
    ByteAt(b, 60) + 256 * ByteAt(b, 61) + 65536 * ByteAt(b, 62)
        + 16777216 * ByteAt(b, 63)

\* Which of parsePE's early returns the buffer calls for, "none" if none.
EarlyExit(b) ==
    IF b.len < 64 THEN "small"
    ELSE IF ~(ByteAt(b, 0) = 77 /\ ByteAt(b, 1) = 90) THEN "magic"
    ELSE IF LfanewField(b) + 4 > b.len THEN "offset"
    ELSE IF <<ByteAt(b, LfanewField(b)), ByteAt(b, LfanewField(b) + 1),
              ByteAt(b, LfanewField(b) + 2), ByteAt(b, LfanewField(b) + 3)>>
                # <<80, 69, 0, 0>> THEN "signature"
    ELSE "none"

\* The regions are the DOS Header alone: 64 bytes at offset 0.
OnlyDosHeader(rs) ==
    /\ Len(rs) = 1
    /\ rs[1].name = <<"DOS Header", <<>>>>
    /\ rs[1].offset = 0
    /\ rs[1].size = 64

\* C19: on a buffer shorter than 64 bytes, one that does not start with
\* 'MZ', one whose e_lfanew + 4 lies beyond the buffer, or one whose
\* signature at e_lfanew is not 'PE\0\0', parsePE returns isValid = false
\* with a non-empty error, no sectionsMetadata, and the regions collected so
\* far: none in the first two cases, the DOS Header alone in the last two.
C19_EarlyExits ==
    (Parsed /\ GoesToPE(buf) /\ EarlyExit(buf) # "none") =>
        /\ parsed.kind = "returned"
        /\ ~parsed.file.isValid
        /\ parsed.file.error # ""
        /\ parsed.file.format = "PE"
        /\ parsed.file.sectionsMetadata = <<>>
        /\ IF EarlyExit(buf) \in {"small", "magic"}
           THEN parsed.file.regions = <<>>
           ELSE OnlyDosHeader(parsed.file.regions)

\* A buffer of at least 64 bytes starting with 'MZ' whose signature is not
\* 'PE\0\0' has been parsed.
C19_Witness ==
    /\ Parsed /\ GoesToPE(buf) /\ EarlyExit(buf) = "signature"
    /\ parsed.kind = "returned"
    /\ OnlyDosHeader(parsed.file.regions)

----------------------------------------------------------------------------
(* Properties of parseELF's regions *)

\* Every region of rs ends at or before hi, and every descendant lies in
\* the byte range of its parent (the top-level ones in [lo, hi)).
RECURSIVE NestedWithin(_, _, _)
NestedWithin(rs, lo, hi) ==
    \A k \in 1..Len(rs) :
        /\ rs[k].offset >= lo
        /\ rs[k].offset + rs[k].size <= hi
        /\ NestedWithin(rs[k].children, rs[k].offset, rs[k].offset + rs[k].size)

\* C20: when parseELF returns isValid = true, every region ends within the
\* file (offset + size <= file size) and every child lies within its parent.
C20_ElfRegionsInBounds ==
    (Parsed /\ ParsedValid("ELF")) =>
        NestedWithin(parsed.file.regions, 0, parsed.file.size)

\* A valid ELF with program headers, section headers and the data of one
\* section, and with another section whose declared range ends past the file.
C20_Witness ==
    /\ Parsed /\ ParsedValid("ELF")
    /\ Len(Named(parsed.file.regions, "Program Headers")) = 1
    /\ Len(Named(parsed.file.regions, "Section Headers")) = 1
    /\ Len(Named(parsed.file.regions, "Section")) >= 1
    /\ \E k \in 1..Len(parsed.file.sectionsMetadata) :
           LET meta == parsed.file.sectionsMetadata[k]
           IN meta.pointerToRawData + meta.sizeOfRawData > parsed.file.size

----------------------------------------------------------------------------
(* Properties of the image parsers' regions *)

\* The regions parsePNG has emitted are well formed.
C21_PngInBounds == RegionsNested(pngWalk.regions, 0, byteLength(buf))

\* The regions parseJPEG has emitted are well formed.
C21_JpegInBounds == RegionsNested(jpegWalk.regions, 0, byteLength(buf))

\* The regions parseHEIC returns are well formed.
C21_HeicInBounds == RegionsNested(heicWalk.regions, 0, byteLength(buf))

\* C21: every region emitted by parsePNG, parseJPEG and parseHEIC has
\* size >= 0 and offset + size <= file size, and every child region lies
\* within its parent.
C21_ImageRegionsInBounds ==
    C21_PngInBounds /\ C21_JpegInBounds /\ C21_HeicInBounds


----------------------------------------------------------------------------
(* Properties of declared file ranges that run past the end of the buffer, *)
(* under SpecParse                                                         *)

\* The range [offset, offset + size) starts in the buffer and ends past it.
RunsPastEnd(b, offset, size) ==
    size > 0 /\ offset > 0 /\ offset < b.len /\ offset + size > b.len

\* Among rs there is a region named n at offset whose size is what the buffer
\* holds from offset on.
ClampedRegion(rs, n, b, offset) ==
    \E k \in 1..Len(rs) :
        rs[k].name[1] = n /\ rs[k].offset = offset /\ rs[k].size = b.len - offset

\* The data of every PE section whose raw range runs past the end is emitted,
\* clamped to the end of the buffer.
C22_PEClamped ==
    (Parsed /\ ParsedValid("PE")) =>
        \A k \in 1..Len(parsed.file.sectionsMetadata) :
            LET meta == parsed.file.sectionsMetadata[k] IN
            RunsPastEnd(buf, meta.pointerToRawData, meta.sizeOfRawData) =>
                ClampedRegion(parsed.file.regions, "Section", buf, meta.pointerToRawData)

\* The type field of the ELF section header at file offset h.
ElfSectionType(b, h) == getUint32(b, h + 4, getUint8(b, 5) = ELFDATA2LSB)

\* The section-header regions of a parsed ELF file, in table order.
ElfSectionHeaders(file) ==
    IF Named(file.regions, "Section Headers") = <<>> THEN <<>>
    ELSE Named(file.regions, "Section Headers")[1].children

\* The same for every ELF section that has bytes in the file.
C22_ElfClamped ==
    (Parsed /\ ParsedValid("ELF")) =>
        \A k \in 1..Len(parsed.file.sectionsMetadata) :
            LET meta == parsed.file.sectionsMetadata[k] IN
            (/\ ElfSectionType(buf, ElfSectionHeaders(parsed.file)[k].offset) # SHT_NOBITS
             /\ RunsPastEnd(buf, meta.pointerToRawData, meta.sizeOfRawData)) =>
                ClampedRegion(parsed.file.regions, "Section", buf, meta.pointerToRawData)

\* The filesize field of the segment command at file offset c of the image at S.
SegmentFileSize(b, S, c) ==
    IF MachHeaderSize(b, S) = 32 THEN getBigUint64(b, c + 48, MagicIsLE(b, S))
    ELSE getUint32(b, c + 36, MagicIsLE(b, S))

\* The segment commands among the load-command regions of a parsed
\* single-architecture Mach-O whose fields lie in the buffer b.
SegmentCommands(file, b) ==
    IF Named(file.regions, "Load Commands") = <<>> THEN <<>>
    ELSE SelectSeq(Named(file.regions, "Load Commands")[1].children,
                   LAMBDA c : /\ c.name[2] \in {LC_SEGMENT, LC_SEGMENT_64}
                              /\ c.offset + (IF MachHeaderSize(b, 0) = 32 THEN 72 ELSE 56)
                                     <= b.len)

\* The same for every Mach-O segment that lies after the load commands.
C22_MachOClamped ==
    (Parsed /\ IsThinMachO(buf) /\ ParsedValid("Mach-O")) =>
        \A k \in 1..Len(SegmentCommands(parsed.file, buf)) :
            LET c == SegmentCommands(parsed.file, buf)[k].offset IN
            (/\ RunsPastEnd(buf, SegmentFileOff(buf, 0, c), SegmentFileSize(buf, 0, c))
             /\ SegmentFileOff(buf, 0, c)
                    >= MachHeaderSize(buf, 0) + getUint32(buf, 20, MagicIsLE(buf, 0))) =>
                ClampedRegion(parsed.file.regions, "Segment", buf, SegmentFileOff(buf, 0, c))

\* C22: when a section or segment header declares a file range that runs
\* past the end of the buffer, the PE, ELF and Mach-O parsers still emit the
\* data region, clamped to the bytes that are there, and go on with the
\* remaining entries.
C22_PastEndRangesClamped == C22_PEClamped /\ C22_ElfClamped /\ C22_MachOClamped


----------------------------------------------------------------------------
(* Properties of parseJPEG, under SpecJPEG *)

\* The byte after a 0xFF that keeps it inside the entropy-coded data: a
\* stuffing 0x00 or a restart marker RST0..RST7.
StuffingOrRestart(x) == x = 0 \/ (x >= 208 /\ x <= 215)

\* The positions from s on of a 0xFF byte followed by another kind of byte.
MarkersFrom(b, s) ==
    {e \in s..(b.len - 1) : ByteAt(b, e) = 255 /\ ~StuffingOrRestart(ByteAt(b, e + 1))}

FirstMarkerFrom(b, s) ==
    CHOOSE e \in MarkersFrom(b, s) : \A x \in MarkersFrom(b, s) : e <= x

IsSosSegment(r) == r.name = <<"Segment", <<SOS>>>>

IsEntropyData(r) == r.name[1] = "Entropy Data"

\* The region after each SOS segment is the entropy-coded data from the end
\* of the segment to the first marker, when a marker follows further on; and
\* entropy-coded data is found nowhere else.
C23_EntropyDataRegion ==
    LET rs == jpegWalk.regions IN
    \A k \in 1..Len(rs) :
        /\ (IsSosSegment(rs[k]) /\ MarkersFrom(buf, rs[k].offset + rs[k].size) # {}) =>
               LET s == rs[k].offset + rs[k].size
                   e == FirstMarkerFrom(buf, s)
               IN IF e > s
                  THEN /\ k < Len(rs)
                       /\ IsEntropyData(rs[k + 1])
                       /\ rs[k + 1].offset = s
                       /\ rs[k + 1].size = e - s
                  ELSE k < Len(rs) => ~IsEntropyData(rs[k + 1])
        /\ IsEntropyData(rs[k]) =>
               /\ k > 1
               /\ IsSosSegment(rs[k - 1])
               /\ rs[k].offset = rs[k - 1].offset + rs[k - 1].size

\* The iteration that emits the entropy-coded data leaves the offset at its
\* end, on the marker that ends it.
C23_ResumesAtMarker ==
    [][(/\ Len(jpegWalk'.regions) > Len(jpegWalk.regions)
        /\ IsEntropyData(jpegWalk'.regions[Len(jpegWalk'.regions)])) =>
           LET r == jpegWalk'.regions[Len(jpegWalk'.regions)] IN
           /\ jpegWalk'.pc = "loop"
           /\ jpegWalk'.offset = r.offset + r.size
           /\ MarkersFrom(buf, r.offset) # {} =>
                  jpegWalk'.offset = FirstMarkerFrom(buf, r.offset)]_vars

\* An EOI marker is the last region.
C23_NothingAfterEOI ==
    \A k \in 1..Len(jpegWalk.regions) :
        jpegWalk.regions[k].name = <<"Marker", <<EOI>>>> => k = Len(jpegWalk.regions)

\* parseJPEG is left, by its return or by a RangeError.
C23_JpegWalkTerminates == <>(jpegWalk.pc = "done")

\* C23: after an SOS segment the 'Entropy Data' region starts at the end of
\* the SOS header and ends at the first following 0xFF byte whose next byte
\* is neither 0x00 nor in 0xD0..0xD7; parsing resumes at that marker; no
\* region is emitted after an EOI marker; and the marker walk terminates on
\* every buffer.
C23_EntropyData ==
    /\ []C23_EntropyDataRegion
    /\ C23_ResumesAtMarker
    /\ []C23_NothingAfterEOI
    /\ C23_JpegWalkTerminates

\* parseJPEG has returned an SOS segment, entropy-coded data that holds a
\* stuffed 0xFF, and the EOI marker that ends it.
C23_Witness ==
    /\ jpegWalk.pc = "done"
    /\ parsed.kind = "returned"
    /\ \E k \in 1..Len(jpegWalk.regions) :
           /\ IsSosSegment(jpegWalk.regions[k])
           /\ k + 2 = Len(jpegWalk.regions)
           /\ IsEntropyData(jpegWalk.regions[k + 1])
           /\ \E x \in 0..(jpegWalk.regions[k + 1].size - 2) :
                  /\ ByteAt(buf, jpegWalk.regions[k + 1].offset + x) = 255
                  /\ ByteAt(buf, jpegWalk.regions[k + 1].offset + x + 1) = 0
           /\ jpegWalk.regions[k + 2].name = <<"Marker", <<EOI>>>>
           /\ jpegWalk.regions[k + 2].offset
                  = jpegWalk.regions[k + 1].offset + jpegWalk.regions[k + 1].size


----------------------------------------------------------------------------
(* Properties of the box walk of parseHEIC, under SpecHEIC *)

\* What the header at offset o of a box inside a container ending at end
\* declares: the size of the box and the size of its header.
DeclaredBoxSize(b, o, end) ==
    IF getUint32(b, o, FALSE) = 1 THEN getBigUint64(b, o + 8, FALSE)
    ELSE IF getUint32(b, o, FALSE) = 0 THEN end - o
    ELSE getUint32(b, o, FALSE)

DeclaredHeaderSize(b, o) == IF getUint32(b, o, FALSE) = 1 THEN 16 ELSE 8

IsBox(r) == r.name[1] = "Box: "

\* The boxes emitted for a container that ends at end: each has its declared
\* size (as much of it as the container holds), its content starts after its
\* header, and the next one starts where its declared size ends.
RECURSIVE BoxesChained(_, _, _)
BoxesChained(b, boxes, end) ==
    \A k \in 1..Len(boxes) :
        LET r == boxes[k]
            size == DeclaredBoxSize(b, r.offset, end)
            header == DeclaredHeaderSize(b, r.offset)
            inner == SelectSeq(r.children, IsBox)
            content == r.offset + header + (IF r.name[2] = META THEN 4 ELSE 0)
        IN /\ r.size = Min(size, end - r.offset)
           /\ k < Len(boxes) =>
                  /\ boxes[k + 1].offset = r.offset + size
                  /\ r.offset + r.size <= boxes[k + 1].offset
           /\ \A c \in 1..Len(r.children) :
                  r.children[c].name[1] = "Data" =>
                      /\ r.children[c].offset = r.offset + header
                      /\ r.children[c].offset + r.children[c].size = r.offset + r.size
           /\ inner # <<>> => inner[1].offset = content
           /\ BoxesChained(b, inner, r.offset + r.size)

\* The boxes of every call in progress are chained, and the call reads its
\* next box where the declared size of the last one ends.
C24_CallsChained ==
    \A f \in 1..Len(heicWalk.stack) :
        LET frame == heicWalk.stack[f] IN
        /\ BoxesChained(buf, frame.boxes, frame.end)
        /\ frame.boxes # <<>> =>
               frame.offset = frame.boxes[Len(frame.boxes)].offset
                                + DeclaredBoxSize(buf, frame.boxes[Len(frame.boxes)].offset,
                                                  frame.end)

\* The boxes parseBoxes(0, byteLength) returned are chained from offset 0.
C24_ResultChained ==
    /\ BoxesChained(buf, heicWalk.regions, byteLength(buf))
    /\ heicWalk.regions # <<>> => heicWalk.regions[1].offset = 0

\* parseHEIC is left, by its return or by a RangeError.
C24_BoxWalkTerminates == <>(heicWalk.pc = "done")

\* C24: a box with 32-bit size 0 extends to the end of its parent container,
\* a box with size 1 takes its size from the following 64-bit field with a
\* 16-byte header, and any other box has the declared size with an 8-byte
\* header; at every nesting level the next sibling is read at the previous
\* box's offset plus its box size, sibling regions do not overlap, and the
\* walk terminates on every buffer.
C24_BoxWalk ==
    /\ [](C24_CallsChained /\ C24_ResultChained)
    /\ C24_BoxWalkTerminates

\* parseHEIC has returned two sibling boxes: one with size 1 and a 64-bit
\* size, then a container with size 0 that holds a box and ends the file.
C24_Witness ==
    /\ heicWalk.pc = "done"
    /\ parsed.kind = "returned"
    /\ Len(heicWalk.regions) = 2
    /\ getUint32(buf, heicWalk.regions[1].offset, FALSE) = 1
    /\ heicWalk.regions[1].size = 20
    /\ heicWalk.regions[2].offset = 20
    /\ getUint32(buf, 20, FALSE) = 0
    /\ heicWalk.regions[2].offset + heicWalk.regions[2].size = byteLength(buf)
    /\ SelectSeq(heicWalk.regions[2].children, IsBox) # <<>>


\* The calls of parseBoxes in progress: heicWalk.stack holds one frame for
\* each native call, the nested ones above their callers.
RecursionDepth == Len(heicWalk.stack)

\* C25: the nesting depth reached by the box traversal is bounded by a fixed
\* cap, so that the depth of native recursion does not grow with the nesting
\* depth declared by the input file: on files that nest up to MaxNesting
\* containers it stays within MaxNesting calls.
C25_RecursionDepthCapped == RecursionDepth <= MaxNesting


----------------------------------------------------------------------------
(* Properties of the section data regions of parseELF, under SpecParse *)

\* Section k of a parsed ELF file is of type SHT_NOBITS.
IsNobits(file, b, k) ==
    ElfSectionType(b, ElfSectionHeaders(file)[k].offset) = SHT_NOBITS

\* Section k has bytes in the file and its range fits in the buffer.
HasFileData(file, b, k) ==
    /\ ~IsNobits(file, b, k)
    /\ file.sectionsMetadata[k].sizeOfRawData > 0
    /\ file.sectionsMetadata[k].pointerToRawData + file.sectionsMetadata[k].sizeOfRawData
           <= b.len

\* The region r is the data of section k.
IsDataOf(r, file, k) ==
    /\ r.name = <<"Section", file.sectionsMetadata[k].name>>
    /\ r.offset = file.sectionsMetadata[k].pointerToRawData
    /\ r.size = file.sectionsMetadata[k].sizeOfRawData

\* C26: parseELF never emits a Section data region for a section whose type
\* is SHT_NOBITS (8), whatever its offset and size, while still emitting its
\* section-header region and its sectionsMetadata entry; every other section
\* with size > 0 whose range fits in the buffer gets exactly one data region.
C26_NobitsHasNoData ==
    (Parsed /\ ParsedValid("ELF")) =>
        LET file == parsed.file
            data == Named(file.regions, "Section")
            n == Len(file.sectionsMetadata)
        IN /\ Len(ElfSectionHeaders(file)) = n
           /\ Len(data) = Cardinality({k \in 1..n : HasFileData(file, buf, k)})
           /\ \A k \in 1..n :
                  /\ HasFileData(file, buf, k) =>
                         \E j \in 1..Len(data) : IsDataOf(data[j], file, k)
                  /\ IsNobits(file, buf, k) =>
                         \A j \in 1..Len(data) : ~IsDataOf(data[j], file, k)

\* A valid ELF with a SHT_NOBITS section whose declared range lies in the
\* file, next to a section with data.
C26_Witness ==
    /\ Parsed /\ ParsedValid("ELF")
    /\ \E k \in 1..Len(parsed.file.sectionsMetadata) :
           /\ IsNobits(parsed.file, buf, k)
           /\ parsed.file.sectionsMetadata[k].sizeOfRawData > 0
           /\ parsed.file.sectionsMetadata[k].pointerToRawData
                  + parsed.file.sectionsMetadata[k].sizeOfRawData <= buf.len
    /\ \E k \in 1..Len(parsed.file.sectionsMetadata) : HasFileData(parsed.file, buf, k)
    /\ Named(parsed.file.regions, "Section") # <<>>


----------------------------------------------------------------------------
(* Properties of the tabs, under SpecTabs and SpecTabSearch *)

\* C27: the number of open file sessions never exceeds 5, for every
\* interleaving of file-load events, including loads started while fewer
\* than 5 sessions are open whose buffer reads complete afterwards.
C27_AtMostFiveSessions == Len(sessions) <= MAX_SESSIONS

\* The results of the searches the dialog can run on a file.
OwnResults(file) ==
    { searchPE(file, c[1], c[2], FALSE).results :
          c \in {x \in TabQueries \X {"ascii", "hex"} :
                    searchPE(file, x[1], x[2], FALSE).kind = "returned"} }

\* C28: the search results stored in a session were always computed from
\* that session's own file: whatever the interleaving of starting a search,
\* switching or closing tabs and the deferred search callback, no session
\* holds results produced by scanning another session's buffer.
C28_ResultsOfOwnFile ==
    \A k \in 1..Len(sessions) :
        sessions[k].searchResults = <<>>
            \/ sessions[k].searchResults \in OwnResults(sessions[k].file)

\* The ids of the open sessions.
SessionIds(ss) == {ss[k].id : k \in 1..Len(ss)}

\* activeSessionId is null exactly when no session is open, and otherwise
\* the id of an open session.
C29_ActiveIsOpen ==
    IF sessions = <<>> THEN activeSessionId = NoSession
    ELSE activeSessionId \in SessionIds(sessions)

\* Closing the active tab makes the last remaining session active (none
\* when none remains); closing another tab leaves the active session as it is.
C29_CloseKeepsActive ==
    [][Len(sessions') < Len(sessions) =>
          IF activeSessionId \in SessionIds(sessions')
          THEN activeSessionId' = activeSessionId
          ELSE activeSessionId' = IF sessions' = <<>> THEN NoSession
                                  ELSE sessions'[Len(sessions')].id]_vars

\* C29: after any sequence of open-file, close-tab and switch-tab events,
\* activeSessionId is null exactly when no session is open and otherwise is
\* the id of a currently open session; closing the active tab makes the last
\* remaining session active, and closing an inactive tab leaves the active
\* session unchanged.
C29_ActiveSessionConsistent == []C29_ActiveIsOpen /\ C29_CloseKeepsActive

\* Three sessions were opened, the first was made active and closed: of the
\* two that remain the last is the active one.
C29_Witness ==
    /\ nextId = 4
    /\ Len(sessions) = 2
    /\ sessions[1].id = 2
    /\ sessions[2].id = 3
    /\ activeSessionId = 3
    /\ loadsLeft = MaxLoads - 3


----------------------------------------------------------------------------
(* Properties of the order of the search results, under SpecSearch *)

\* C30: in every search mode, including ascii regex searches whose pattern
\* can match the empty string, the offsets of the returned results are
\* strictly increasing (no match position is reported twice) and the search
\* loop terminates.
C30_OffsetsStrictlyIncreasing ==
    searchOut.kind = "returned" =>
        \A k \in 1..(Len(searchOut.results) - 1) :
            searchOut.results[k].offset < searchOut.results[k + 1].offset

====
